---- MODULE Spec2Model ----
(***************************************************************************)
(* Pro-Tasker backend: ownership-scoped access to projects and tasks.      *)
(*                                                                         *)
(* The repository holds several drafts of the same application.  The       *)
(* model follows them separately:                                          *)
(*   Spec, SpecProjects, SpecCascade                                       *)
(*             the "backend" draft: project routes and nested task routes  *)
(*             (src/backend/models/User.js:70-436), flat task routes       *)
(*             (src/backend/routes/api/taskRoutes.js) and the auth         *)
(*             middlewares (src/routes/taskRoutes.js:163-328), run by      *)
(*             concurrent requests that interleave at every store call,    *)
(*             under three workloads;                                      *)
(*   SpecAuth  registration and login (src/backend/models/User.js:437-596);*)
(*   SpecLab   the "Lab 2" project router with authentication disabled     *)
(*             (src/controllers/projectControllers.js:153-253).            *)
(*                                                                         *)
(* Strings are sequences of one-character strings, so that trim() and      *)
(* toLowerCase() are computed and not assumed.                             *)
(***************************************************************************)
EXTENDS Integers, Sequences, FiniteSets, TLC

VARIABLES
  users,      \* collection users:    _id -> [username, email, password]
  projects,   \* collection projects: _id -> [name, description, status, user]
  tasks,      \* collection tasks:    _id -> [title, description, status, priority, project, dueDate]
  projectLog, \* history: every project _id ever inserted -> the user stored with it
  taskSeq,    \* the number of task _ids handed out so far
  rq,         \* one record per client connection: the request it has in flight
  now         \* the clock of the server: what new Date() returns

vars == <<users, projects, tasks, projectLog, taskSeq, rq, now>>

-----------------------------------------------------------------------------
(* Bounds of the model. *)

MaxProjects == 2
MaxTasks == 2
MaxUsers == 2
MaxTime == 3

Procs == {1, 2}

-----------------------------------------------------------------------------
(* Strings. *)

Undef == <<"undefined">>
NoId == 0
NoUser == 0
NoStatus == "undefined"

RECURSIVE TrimLeft(_)
TrimLeft(s) ==
  IF s = <<>> THEN s
  ELSE IF Head(s) = " " THEN TrimLeft(Tail(s)) ELSE s

RECURSIVE TrimRight(_)
TrimRight(s) ==
  IF s = <<>> THEN s
  ELSE IF s[Len(s)] = " " THEN TrimRight(SubSeq(s, 1, Len(s) - 1)) ELSE s

Trim(s) == TrimRight(TrimLeft(s))

LowerChar(c) ==
  CASE c = "A" -> "a"
    [] c = "B" -> "b"
    [] OTHER -> c

ToLowerCase(s) == [i \in 1..Len(s) |-> LowerChar(s[i])]

\* JavaScript's !x for a string-or-undefined request field
Falsy(s) == s = Undef \/ s = <<>>


-----------------------------------------------------------------------------
(* The document store (MongoDB through Mongoose). *)

EmptyStore == [x \in {} |-> x]

Insert(coll, id, doc) == coll @@ (id :> doc)

Remove(coll, ids) == [x \in DOMAIN coll \ ids |-> coll[x]]

\* ObjectIds are never reused: the next _id is one past the ids handed out
NewProjectId == Cardinality(DOMAIN projectLog) + 1
NewTaskId == taskSeq + 1
NewUserId == Cardinality(DOMAIN users) + 1

\* a string that is no ObjectId: findById throws a CastError on it
BadId == -1

NameMinLen == 3
NameMaxLen == 100
DescMaxLen == 500

ProjectStatuses == {"Active", "Completed", "On Hold", "Cancelled"}

\* schema validation run by save() on a project document
ValidProject(doc) ==
  /\ doc.name # <<>>
  /\ Len(doc.name) >= NameMinLen
  /\ Len(doc.name) <= NameMaxLen
  /\ doc.description # <<>>
  /\ Len(doc.description) <= DescMaxLen
  /\ doc.status \in ProjectStatuses
  /\ doc.user # NoUser

\* a unique index on the name alone, for comparison
DuplicateKeyNameOnly(projs, id, doc) ==
  \E q \in DOMAIN projs \ {id} : projs[q].name = doc.name

\* the unique index { user: 1, name: 1 }: writing doc under id would collide (E11000)
DuplicateKey(projs, id, doc) ==
  \E q \in DOMAIN projs \ {id} :
    projs[q].user = doc.user /\ projs[q].name = doc.name

-----------------------------------------------------------------------------
(* Requests and responses. *)

\* the projection of a document on some of its paths
Select(doc, fields) == [f \in fields \cap DOMAIN doc |-> doc[f]]

\* userSchema.methods.toJSON
ToJSON(doc) == Select(doc, DOMAIN doc \ {"password"})

\* populate('user', 'username email'): the user documents embedded in a payload
Populate(us, ids, fields) == {ToJSON(Select(us[u], fields)) : u \in ids \cap DOMAIN us}

\* a response: its status, its message and what its payload shows
\* (shown: the user documents in the payload, as serialized)
\* no statistics in the payload
NoStats == [totalTasks |-> 0, todoTasks |-> 0, inProgressTasks |-> 0, doneTasks |-> 0,
            highPriorityTasks |-> 0, urgentTasks |-> 0, overdueTasks |-> 0,
            completionRate |-> << >>, projectCount |-> 0]

Resp(status, message) ==
  [status |-> status, message |-> message, projects |-> {}, tasks |-> {}, count |-> 0,
   user |-> NoUser, shown |-> {}, stats |-> NoStats]

\* a response whose payload is the statistics st
RespStats(status, message, st) == [Resp(status, message) EXCEPT !.stats = st]

RespWith(status, message, projs, tsks, n) ==
  [status |-> status, message |-> message, projects |-> projs, tasks |-> tsks, count |-> n,
   user |-> NoUser, shown |-> {}, stats |-> NoStats]

\* the response of register and login: the token and the user it is issued to,
\* user: { id, username, email, createdAt } picked from the document doc
RespUser(status, message, u, doc) ==
  [status |-> status, message |-> message, projects |-> {}, tasks |-> {}, count |-> 0,
   user |-> u, shown |-> {Select(doc, {"username", "email"})}, stats |-> NoStats]

\* a response whose payload embeds the user documents views
Showing(resp, views) == [resp EXCEPT !.shown = views]

NoResp == Resp(0, "")

NoBody == [name |-> Undef, description |-> Undef, status |-> NoStatus]

NoDoc == [id |-> NoId]

\* a connection with no request in flight
Idle ==
  [op |-> "none", pc |-> "idle", caller |-> NoUser, id |-> NoId, body |-> NoBody,
   res |-> NoDoc, resp |-> NoResp, phase |-> "Unauthenticated", accessed |-> FALSE,
   count |-> 0, removed |-> {}]

\* what a project document looks like in a task payload / a task in a list
TaskView(tsks, t) == [id |-> t, project |-> tsks[t].project]

\* a task document in the payload of the routes that answer with one task
TaskDetail(t, doc) == [id |-> t, project |-> doc.project, status |-> doc.status]

-----------------------------------------------------------------------------
(* Session tokens and the authentication middleware. *)

EmptyToken == [userId |-> NoUser, sig |-> "none", expired |-> FALSE]

\* jwt.sign({ userId }, JWT_SECRET, { expiresIn: '7d' })
GenerateToken(userId) == [userId |-> userId, sig |-> "valid", expired |-> FALSE]

NoHeader == [present |-> FALSE, token |-> EmptyToken]

Bearer(token) == [present |-> TRUE, token |-> token]

\* the Authorization headers a client holding the tokens of the users us can send
HeadersOf(us) ==
  {NoHeader, Bearer(EmptyToken)}
    \cup {Bearer(GenerateToken(u)) : u \in us}
    \cup {Bearer([GenerateToken(u) EXCEPT !.sig = "forged"]) : u \in us}
    \cup {Bearer([GenerateToken(u) EXCEPT !.expired = TRUE]) : u \in us}

\* the valid tokens only
TokensOf(us) == {Bearer(GenerateToken(u)) : u \in us}

\* authenticateToken: the 401 it answers, or the user it attaches to the request
AuthenticateToken(us, hdr) ==
  IF ~hdr.present
    THEN [ok |-> FALSE, user |-> NoUser, resp |-> Resp(401, "Access denied. No token provided.")]
  ELSE IF hdr.token = EmptyToken
    THEN [ok |-> FALSE, user |-> NoUser, resp |-> Resp(401, "Access denied. Invalid token format.")]
  ELSE IF hdr.token.sig # "valid"
    THEN [ok |-> FALSE, user |-> NoUser, resp |-> Resp(401, "Access denied. Invalid token.")]
  ELSE IF hdr.token.expired
    THEN [ok |-> FALSE, user |-> NoUser, resp |-> Resp(401, "Access denied. Token expired.")]
  ELSE IF hdr.token.userId \notin DOMAIN us
    THEN [ok |-> FALSE, user |-> NoUser, resp |-> Resp(401, "Token is valid but user not found.")]
  ELSE [ok |-> TRUE, user |-> hdr.token.userId, resp |-> NoResp]

\* Responses are kept for observation only: rq[p] holds the response of connection p
\* until p sends its next request or a later response is sent on another connection.
Forget(r) == [q \in Procs |-> IF r[q].pc = "done" THEN Idle ELSE r[q]]

\* the request of connection p ends with response r
Reply(p, op, id, body, phase, accessed, r) ==
  rq' = [Forget(rq) EXCEPT ![p] = [rq[p] EXCEPT !.op = op, !.pc = "done", !.id = id,
                                               !.body = body, !.res = NoDoc, !.resp = r,
                                               !.phase = phase, !.accessed = accessed]]

\* router.use(authenticateToken): a new request arrives on connection p
Authenticate(p, headers) ==
  /\ rq[p].pc \in {"idle", "done"}
  /\ \E hdr \in headers :
       LET a == AuthenticateToken(users, hdr)
       IN IF a.ok
            THEN rq' = [rq EXCEPT ![p] = [Idle EXCEPT !.pc = "authed", !.caller = a.user,
                                                     !.phase = "Authenticated"]]
            ELSE rq' = [Forget(rq) EXCEPT ![p] = [Idle EXCEPT !.pc = "done", !.resp = a.resp]]
  /\ UNCHANGED <<now, users, projects, tasks, projectLog, taskSeq>>


-----------------------------------------------------------------------------
(* Project routes of the backend draft. *)

\* request bodies and parameters the clients send
ProjectBody(name, description, status) ==
  [name |-> name, description |-> description, status |-> status]

GoodProjectBodies ==
  {ProjectBody(<<"a", "b", "c">>, <<"d">>, NoStatus),
   ProjectBody(<<"x", "y", "z">>, <<"d">>, NoStatus)}

ProjectBodies ==
  GoodProjectBodies \cup
  {ProjectBody(<<" ", "a", "b", "c", " ">>, <<"d">>, NoStatus),
   ProjectBody(<<"a", "b">>, <<"d">>, NoStatus),
   ProjectBody(Undef, <<"d">>, NoStatus),
   ProjectBody(<<"a", "b", "c">>, Undef, NoStatus),
   ProjectBody(<<"a", "b", "c">>, <<"d">>, "Archived")}

ProjectPatches ==
  {ProjectBody(<<"a", "b", "c">>, Undef, NoStatus),
   ProjectBody(<<"x", "y", "z", " ">>, Undef, NoStatus),
   ProjectBody(<<"a", "b">>, Undef, NoStatus),
   ProjectBody(Undef, <<"d">>, "Active")}

ProjectIdIn == 1..MaxProjects

OwnedBy(projs, u) == {q \in DOMAIN projs : projs[q].user = u}

TasksOf(tsks, q) == {t \in DOMAIN tsks : tsks[t].project = q}

\* POST /api/projects
CreateProject(p, bodies) ==
  /\ rq[p].pc = "authed"
  /\ \E body \in bodies :
       LET id == NewProjectId
           doc == [name |-> Trim(body.name), description |-> Trim(body.description),
                   status |-> IF body.status = NoStatus THEN "Active" ELSE body.status,
                   user |-> rq[p].caller]
       IN IF Falsy(body.name) \/ Falsy(body.description)
            THEN /\ Reply(p, "createProject", NoId, body, "Authorized", FALSE,
                          Resp(400, "Please provide project name and description."))
                 /\ UNCHANGED <<projects, projectLog>>
          ELSE IF ~ValidProject(doc)
            THEN /\ Reply(p, "createProject", NoId, body, "Authorized", FALSE,
                          Resp(400, "Validation error."))
                 /\ UNCHANGED <<projects, projectLog>>
          ELSE IF DuplicateKey(projects, id, doc)
            THEN /\ Reply(p, "createProject", NoId, body, "Authorized", TRUE,
                          Resp(400, "You already have a project with this name."))
                 /\ UNCHANGED <<projects, projectLog>>
          ELSE /\ id <= MaxProjects
               /\ projects' = Insert(projects, id, doc)
               /\ projectLog' = Insert(projectLog, id, doc.user)
               /\ Reply(p, "createProject", id, body, "Authorized", TRUE,
                        Showing(RespWith(201, "Project created successfully.", {id}, {}, 0),
                                Populate(users, {doc.user}, {"username", "email"})))
  /\ UNCHANGED <<now, users, tasks, taskSeq>>

\* GET /api/projects
ListProjects(p) ==
  /\ rq[p].pc = "authed"
  /\ \E status \in {NoStatus, "Active"} :
       LET found == {q \in OwnedBy(projects, rq[p].caller) :
                       status = NoStatus \/ projects[q].status = status}
       IN Reply(p, "listProjects", NoId, NoBody, "Authorized", TRUE,
                Showing(RespWith(200, "Projects retrieved successfully.", found, {},
                                 Cardinality(found)),
                        Populate(users, {projects[q].user : q \in found},
                                 {"username", "email"})))
  /\ UNCHANGED <<now, users, projects, tasks, projectLog, taskSeq>>

\* verifyOwnership(Project): what the middleware answers for resource id and caller u
OwnershipOutcome(projs, id, u) ==
  IF id = BadId THEN Resp(400, "Invalid resource ID format.")
  ELSE IF id \notin DOMAIN projs THEN Resp(404, "Project not found.")
  ELSE IF projs[id].user # u THEN Resp(403, "Access denied. You don't own this project.")
  ELSE Resp(200, "")

\* verifyOwnership(Project) in front of GET, PUT and DELETE /api/projects/:id
VerifyOwnership(p, ops, ids) ==
  /\ rq[p].pc = "authed"
  /\ \E op \in ops, id \in ids :
       LET out == OwnershipOutcome(projects, id, rq[p].caller)
       IN IF out.status = 200
            THEN rq' = [rq EXCEPT ![p] = [@ EXCEPT !.op = op, !.pc = "owned", !.id = id,
                                                   !.res = projects[id],
                                                   !.phase = "Authorized"]]
            ELSE Reply(p, op, id, NoBody, "Denied", FALSE, out)
  /\ UNCHANGED <<now, users, projects, tasks, projectLog, taskSeq>>

RecentLimit == 5

\* GET /api/projects/:id
GetProject(p) ==
  /\ rq[p].pc = "owned"
  /\ rq[p].op = "getProject"
  /\ LET mine == TasksOf(tasks, rq[p].id)
     IN \E recent \in SUBSET mine :
          /\ Cardinality(recent) = IF Cardinality(mine) < RecentLimit
                                     THEN Cardinality(mine) ELSE RecentLimit
          /\ Reply(p, "getProject", rq[p].id, NoBody, "Authorized", TRUE,
                   Showing(RespWith(200, "Project retrieved successfully.", {rq[p].id},
                                    {TaskView(tasks, t) : t \in recent}, Cardinality(mine)),
                           Populate(users, {rq[p].res.user}, {"username", "email"})))
  /\ UNCHANGED <<now, users, projects, tasks, projectLog, taskSeq>>

\* a save() that wrote the document before it validated it, for comparison
SaveRejectedLate(store, id, stored) ==
  IF id \in DOMAIN store THEN [store EXCEPT ![id] = stored] ELSE store

\* save() runs the validators before it sends anything to the store: a document that
\* fails them leaves the collection as it was
SaveRejected(store, id, stored) == store

\* PUT /api/projects/:id
UpdateProject(p, patches) ==
  /\ rq[p].pc = "owned"
  /\ rq[p].op = "updateProject"
  /\ \E body \in patches :
       LET name == body.name
           description == body.description
           status == body.status
           id == rq[p].id
           old == rq[p].res
           doc == [name |-> IF name # Undef THEN Trim(name) ELSE old.name,
                   description |-> IF description # Undef THEN Trim(description)
                                   ELSE old.description,
                   status |-> IF status # NoStatus THEN status ELSE old.status,
                   user |-> old.user]
           \* save() writes the paths that changed on the loaded document
           stored == [name |-> IF doc.name # old.name THEN doc.name ELSE projects[id].name,
                      description |-> IF doc.description # old.description
                                      THEN doc.description ELSE projects[id].description,
                      status |-> IF doc.status # old.status
                                 THEN doc.status ELSE projects[id].status,
                      user |-> projects[id].user]
       IN IF ~ValidProject(doc)
            THEN /\ Reply(p, "updateProject", id, body, "Authorized", FALSE,
                          Resp(400, "Validation error."))
                 /\ projects' = SaveRejected(projects, id, stored)
          ELSE IF id \notin DOMAIN projects
            THEN \* DocumentNotFoundError: the document is gone
                 /\ Reply(p, "updateProject", id, body, "Authorized", TRUE,
                          Resp(500, "Server error during project update."))
                 /\ UNCHANGED projects
          ELSE IF DuplicateKey(projects, id, stored)
            THEN /\ Reply(p, "updateProject", id, body, "Authorized", TRUE,
                          Resp(400, "You already have a project with this name."))
                 /\ UNCHANGED projects
          ELSE /\ projects' = [projects EXCEPT ![id] = stored]
               /\ Reply(p, "updateProject", id, body, "Authorized", TRUE,
                        Showing(RespWith(200, "Project updated successfully.", {id}, {}, 0),
                                Populate(users, {doc.user}, {"username", "email"})))
  /\ UNCHANGED <<now, users, tasks, projectLog, taskSeq>>

\* DELETE /api/projects/:id, first store call: Task.countDocuments({ project })
DeleteProjectCount(p) ==
  /\ rq[p].pc = "owned"
  /\ rq[p].op = "deleteProject"
  /\ rq' = [rq EXCEPT ![p] = [@ EXCEPT !.pc = "counted", !.accessed = TRUE,
                                       !.count = Cardinality(TasksOf(tasks, rq[p].id))]]
  /\ UNCHANGED <<now, users, projects, tasks, projectLog, taskSeq>>

\* DELETE /api/projects/:id, second store call: Task.deleteMany({ project })
DeleteProjectTasks(p) ==
  /\ rq[p].pc = "counted"
  /\ tasks' = Remove(tasks, TasksOf(tasks, rq[p].id))
  /\ rq' = [rq EXCEPT ![p] = [@ EXCEPT !.pc = "cascaded",
                                       !.removed = TasksOf(tasks, rq[p].id)]]
  /\ UNCHANGED <<now, users, projects, projectLog, taskSeq>>

\* DELETE /api/projects/:id, third store call: Project.deleteOne({ _id }), and the response
DeleteProject(p) ==
  /\ rq[p].pc = "cascaded"
  /\ projects' = Remove(projects, {rq[p].id})
  /\ rq' = [Forget(rq) EXCEPT ![p] = [rq[p] EXCEPT !.pc = "done", !.res = NoDoc,
                 !.resp = RespWith(200, "Project and associated tasks deleted successfully.",
                                   {rq[p].id}, {}, rq[p].count)]]
  /\ UNCHANGED <<now, users, tasks, projectLog, taskSeq>>


-----------------------------------------------------------------------------
(* Task routes of the backend draft. *)

TitleMinLen == 3
TitleMaxLen == 100
TaskDescMaxLen == 1000

TaskStatuses == {"To Do", "In Progress", "Done"}
TaskPriorities == {"Low", "Medium", "High", "Urgent"}

\* schema validation run by save() on a task document
ValidTask(doc) ==
  /\ doc.title # <<>>
  /\ Len(doc.title) >= TitleMinLen
  /\ Len(doc.title) <= TitleMaxLen
  /\ doc.description # <<>>
  /\ Len(doc.description) <= TaskDescMaxLen
  /\ doc.status \in TaskStatuses
  /\ doc.priority \in TaskPriorities
  /\ doc.project # NoId

\* instants are numbers, as in new Date(n); a date string denotes a positive one
NoDate == -1     \* undefined: no dueDate given / no dueDate path in the document
NullDate == -2   \* null

\* the dueDate validator: !value || value >= new Date(), value a Date or null
ValidDueDate(value, t) == value \in {NoDate, NullDate} \/ value >= t

\* dueDate ? new Date(dueDate) : undefined
DueDateOnCreate(dueDate) == IF dueDate \in {NoDate, NullDate, 0} THEN NoDate ELSE dueDate

\* task.dueDate = dueDate ? new Date(dueDate) : null without the test for undefined,
\* for comparison
DueDateOnUpdateAlways(dueDate, old) ==
  IF dueDate \in {NoDate, NullDate, 0} THEN NullDate ELSE dueDate

\* if (dueDate !== undefined) task.dueDate = dueDate ? new Date(dueDate) : null
DueDateOnUpdate(dueDate, old) ==
  IF dueDate = NoDate THEN old
  ELSE IF dueDate \in {NullDate, 0} THEN NullDate
  ELSE dueDate

TaskBody(title, description, status, priority) ==
  [title |-> title, description |-> description, status |-> status, priority |-> priority,
   dueDate |-> NoDate]

\* a body with a dueDate
Due(body, dueDate) == [body EXCEPT !.dueDate = dueDate]

DueDates == {NoDate, NullDate} \cup (0..(MaxTime + 1))

DuePatches == {Due(TaskBody(Undef, Undef, NoStatus, NoStatus), d) : d \in DueDates}

GoodTaskBodies == {TaskBody(<<"t", "s", "k">>, <<"d">>, NoStatus, NoStatus)}

TaskBodies ==
  GoodTaskBodies \cup
  {TaskBody(<<" ", "t", "s", "k">>, <<"d">>, "Done", "High"),
   TaskBody(<<"t">>, <<"d">>, NoStatus, NoStatus),
   TaskBody(Undef, <<"d">>, NoStatus, NoStatus),
   TaskBody(<<"t", "s", "k">>, <<"d">>, "Blocked", NoStatus)}

StatusPatches == {TaskBody(Undef, Undef, "In Progress", NoStatus)}

TaskPatches ==
  StatusPatches \cup
  {TaskBody(<<"t">>, Undef, NoStatus, NoStatus),
   TaskBody(Undef, Undef, NoStatus, "High")}

NoFilter == [status |-> NoStatus, priority |-> NoStatus]

DueBodies == {Due(body, d) : body \in GoodTaskBodies, d \in DueDates}

\* req.body of an update: one field supplied, the others not
UpdatePatches ==
  {TaskBody(<<"n", "e", "w">>, Undef, NoStatus, NoStatus),
   TaskBody(Undef, Undef, "Done", NoStatus),
   Due(TaskBody(Undef, Undef, NoStatus, NoStatus), NullDate)}

TaskFilters == {NoFilter, [status |-> "In Progress", priority |-> NoStatus],
                [status |-> NoStatus, priority |-> "High"]}

TaskIdIn == 1..MaxTasks

\* the lookup without the owner, Project.findOne({ _id: projectId }), for comparison
FindOwnedProjectAnyUser(projs, id, u) ==
  IF id = BadId THEN Resp(400, "Invalid project ID format.")
  ELSE IF id \notin DOMAIN projs
    THEN Resp(404, "Project not found or access denied.")
  ELSE Resp(200, "")

\* Project.findOne({ _id: projectId, user: userId }) of the nested task routes
FindOwnedProject(projs, id, u) ==
  IF id = BadId THEN Resp(400, "Invalid project ID format.")
  ELSE IF id \notin DOMAIN projs \/ projs[id].user # u
    THEN Resp(404, "Project not found or access denied.")
  ELSE Resp(200, "")

\* GET /api/projects/:projectId/tasks, first store call: the ownership lookup
ListProjectTasksCheck(p, ids) ==
  /\ rq[p].pc = "authed"
  /\ \E id \in ids :
       LET out == FindOwnedProject(projects, id, rq[p].caller)
       IN IF out.status = 200
            THEN rq' = [rq EXCEPT ![p] = [@ EXCEPT !.op = "listProjectTasks",
                                                   !.pc = "projectFound", !.id = id,
                                                   !.phase = "Authorized"]]
            ELSE Reply(p, "listProjectTasks", id, NoBody, "Denied", FALSE, out)
  /\ UNCHANGED <<now, users, projects, tasks, projectLog, taskSeq>>

\* GET /api/projects/:projectId/tasks, second store call: Task.find(query)
ListProjectTasks(p, filters) ==
  /\ rq[p].pc = "projectFound"
  /\ rq[p].op = "listProjectTasks"
  /\ \E query \in filters :
       LET found == {t \in TasksOf(tasks, rq[p].id) :
                       /\ query.status = NoStatus \/ tasks[t].status = query.status
                       /\ query.priority = NoStatus \/ tasks[t].priority = query.priority}
       IN Reply(p, "listProjectTasks", rq[p].id, query, "Authorized", TRUE,
                RespWith(200, "Tasks retrieved successfully.", {rq[p].id},
                         {TaskView(tasks, t) : t \in found}, Cardinality(found)))
  /\ UNCHANGED <<now, users, projects, tasks, projectLog, taskSeq>>

\* POST /api/projects/:projectId/tasks, up to the ownership lookup
CreateTaskCheck(p, ids, bodies) ==
  /\ rq[p].pc = "authed"
  /\ NewTaskId <= MaxTasks
  /\ \E id \in ids, body \in bodies :
       LET out == FindOwnedProject(projects, id, rq[p].caller)
       IN IF Falsy(body.title) \/ Falsy(body.description)
            THEN Reply(p, "createTask", id, body, "Authenticated", FALSE,
                       Resp(400, "Please provide task title and description."))
          ELSE IF out.status = 200
            THEN rq' = [rq EXCEPT ![p] = [@ EXCEPT !.op = "createTask",
                                                   !.pc = "projectFound", !.id = id,
                                                   !.body = body, !.phase = "Authorized"]]
          ELSE Reply(p, "createTask", id, body, "Denied", FALSE, out)
  /\ UNCHANGED <<now, users, projects, tasks, projectLog, taskSeq>>

\* POST /api/projects/:projectId/tasks, task.save() and the response
CreateTask(p) ==
  /\ rq[p].pc = "projectFound"
  /\ rq[p].op = "createTask"
  /\ LET body == rq[p].body
         id == NewTaskId
         doc == [title |-> Trim(body.title), description |-> Trim(body.description),
                 status |-> IF body.status = NoStatus THEN "To Do" ELSE body.status,
                 priority |-> IF body.priority = NoStatus THEN "Medium" ELSE body.priority,
                 project |-> rq[p].id,
                 dueDate |-> DueDateOnCreate(body.dueDate)]
     IN IF ~ValidTask(doc) \/ ~ValidDueDate(doc.dueDate, now)
          THEN /\ Reply(p, "createTask", rq[p].id, body, "Authorized", FALSE,
                        Resp(400, "Validation error."))
               /\ UNCHANGED <<tasks, taskSeq>>
        ELSE /\ tasks' = Insert(tasks, id, doc)
             /\ taskSeq' = id
             /\ Reply(p, "createTask", rq[p].id, body, "Authorized", TRUE,
                      RespWith(201, "Task created successfully.", {},
                               {[id |-> id, project |-> doc.project]}, 0))
  /\ UNCHANGED <<now, users, projects, projectLog>>

\* verifyTaskOwnership: what the middleware answers for task id and caller u
TaskOwnershipOutcome(tsks, projs, id, u) ==
  IF id = BadId THEN Resp(400, "Invalid task ID format.")
  ELSE IF id \notin DOMAIN tsks THEN Resp(404, "Task not found.")
  ELSE IF tsks[id].project \notin DOMAIN projs
    THEN \* populate leaves task.project null; task.project.user throws a TypeError
         Resp(500, "Server error during task ownership verification.")
  ELSE IF projs[tsks[id].project].user # u
    THEN Resp(403, "Access denied. You don't own the project containing this task.")
  ELSE Resp(200, "")

\* verifyTaskOwnership in front of GET, PUT and DELETE /api/tasks/:taskId
VerifyTaskOwnership(p, ops, ids) ==
  /\ rq[p].pc = "authed"
  /\ \E op \in ops, id \in ids :
       LET out == TaskOwnershipOutcome(tasks, projects, id, rq[p].caller)
       IN IF out.status = 200
            THEN rq' = [rq EXCEPT ![p] = [@ EXCEPT !.op = op, !.pc = "taskOwned", !.id = id,
                                                   !.res = tasks[id],
                                                   !.phase = "Authorized"]]
            ELSE Reply(p, op, id, NoBody, "Denied", FALSE, out)
  /\ UNCHANGED <<now, users, projects, tasks, projectLog, taskSeq>>

\* GET /api/tasks/:taskId
GetTask(p) ==
  /\ rq[p].pc = "taskOwned"
  /\ rq[p].op = "getTask"
  /\ Reply(p, "getTask", rq[p].id, NoBody, "Authorized", TRUE,
           RespWith(200, "Task retrieved successfully.", {},
                    {TaskDetail(rq[p].id, rq[p].res)}, 0))
  /\ UNCHANGED <<now, users, projects, tasks, projectLog, taskSeq>>

\* PUT /api/tasks/:taskId
UpdateTask(p, patches) ==
  /\ rq[p].pc = "taskOwned"
  /\ rq[p].op = "updateTask"
  /\ \E body \in patches :
       LET title == body.title
           status == body.status
           priority == body.priority
           id == rq[p].id
           old == rq[p].res
           doc == [title |-> IF title # Undef THEN Trim(title) ELSE old.title,
                   description |-> IF body.description # Undef THEN Trim(body.description)
                                   ELSE old.description,
                   status |-> IF status # NoStatus THEN status ELSE old.status,
                   priority |-> IF priority # NoStatus THEN priority ELSE old.priority,
                   project |-> old.project,
                   dueDate |-> DueDateOnUpdate(body.dueDate, old.dueDate)]
           \* save() validates the loaded document as modified, the dueDate against the
           \* clock included, and writes the paths that changed
           stored == [title |-> IF doc.title # old.title THEN doc.title ELSE tasks[id].title,
                      description |-> IF doc.description # old.description
                                      THEN doc.description ELSE tasks[id].description,
                      status |-> IF doc.status # old.status THEN doc.status
                                 ELSE tasks[id].status,
                      priority |-> IF doc.priority # old.priority THEN doc.priority
                                   ELSE tasks[id].priority,
                      project |-> tasks[id].project,
                      dueDate |-> IF doc.dueDate # old.dueDate THEN doc.dueDate
                                  ELSE tasks[id].dueDate]
       IN IF ~ValidTask(doc) \/ ~ValidDueDate(doc.dueDate, now)
            THEN /\ Reply(p, "updateTask", id, body, "Authorized", FALSE,
                          Resp(400, "Validation error."))
                 /\ tasks' = SaveRejected(tasks, id, stored)
          ELSE IF id \notin DOMAIN tasks
            THEN /\ Reply(p, "updateTask", id, body, "Authorized", TRUE,
                          Resp(500, "Server error during task update."))
                 /\ UNCHANGED tasks
          ELSE /\ tasks' = [tasks EXCEPT ![id] = stored]
               /\ Reply(p, "updateTask", id, body, "Authorized", TRUE,
                        RespWith(200, "Task updated successfully.", {},
                                 {[id |-> id, project |-> doc.project]}, 0))
  /\ UNCHANGED <<now, users, projects, projectLog, taskSeq>>

\* the statuses PATCH /api/tasks/:taskId/status accepts
ValidStatuses == {"To Do", "In Progress", "Done"}

\* status of req.body
PatchStatuses == {NoStatus, "In Progress", "Done", "Blocked"}

\* PATCH /api/tasks/:taskId/status
PatchStatus(p, statuses) ==
  /\ rq[p].pc = "taskOwned"
  /\ rq[p].op = "patchStatus"
  /\ \E status \in statuses :
       LET id == rq[p].id
           old == rq[p].res
           body == [NoBody EXCEPT !.status = status]
           doc == [old EXCEPT !.status = status]
       IN IF status = NoStatus \/ status \notin ValidStatuses
            THEN /\ Reply(p, "patchStatus", id, body, "Authorized", FALSE,
                          Resp(400, "Invalid status. Must be one of: To Do, In Progress, Done"))
                 /\ UNCHANGED tasks
          ELSE IF ~ValidTask(doc) \/ ~ValidDueDate(doc.dueDate, now)
            THEN \* the catch has no branch for the ValidationError of save()
                 /\ Reply(p, "patchStatus", id, body, "Authorized", FALSE,
                          Resp(500, "Server error during task status update."))
                 /\ UNCHANGED tasks
          ELSE IF id \notin DOMAIN tasks
            THEN /\ Reply(p, "patchStatus", id, body, "Authorized", TRUE,
                          Resp(500, "Server error during task status update."))
                 /\ UNCHANGED tasks
          ELSE \* save() writes the status if it changed on the loaded document
               /\ tasks' = [tasks EXCEPT ![id].status =
                                            IF doc.status # old.status THEN status ELSE @]
               /\ Reply(p, "patchStatus", id, body, "Authorized", TRUE,
                        RespWith(200, "Task status updated successfully.", {},
                                 {TaskDetail(id, doc)}, 0))
  /\ UNCHANGED <<now, users, projects, projectLog, taskSeq>>

\* DELETE /api/tasks/:taskId
DeleteTask(p) ==
  /\ rq[p].pc = "taskOwned"
  /\ rq[p].op = "deleteTask"
  /\ tasks' = Remove(tasks, {rq[p].id})
  /\ rq' = [Forget(rq) EXCEPT ![p] = [rq[p] EXCEPT !.pc = "done", !.res = NoDoc,
                 !.accessed = TRUE, !.removed = {rq[p].id} \cap DOMAIN tasks,
                 !.resp = RespWith(200, "Task deleted successfully.", {},
                                   {[id |-> rq[p].id, project |-> rq[p].res.project]}, 0)]]
  /\ UNCHANGED <<now, users, projects, projectLog, taskSeq>>

TaskListLimit == 100

\* GET /api/tasks, first store call: Project.find({ user }).select('_id')
ListTasksProjects(p) ==
  /\ rq[p].pc = "authed"
  /\ rq' = [rq EXCEPT ![p] = [@ EXCEPT !.op = "listTasks", !.pc = "projectsFound",
                                       !.res = [ids |-> OwnedBy(projects, rq[p].caller)],
                                       !.phase = "Authorized"]]
  /\ UNCHANGED <<now, users, projects, tasks, projectLog, taskSeq>>

\* req.query.order: 'asc' sorts ascending, every other value descending
SortOrders == {"asc", "desc"}

\* no limit, for comparison
FirstOfAll(match, n, order) == match

\* .sort({ createdAt: order }).limit(n): the first n of the matching tasks in the order
\* of their creation, which is the order of their ids
First(match, n, order) ==
  {t \in match :
     Cardinality({u \in match : IF order = "asc" THEN u < t ELSE u > t}) < n}

\* every project filter passes, for comparison
ProjectFilterAllowedAny(ids, project) == TRUE

\* no project filter, or projectIds.some(id => id.toString() === project)
ProjectFilterAllowed(ids, project) == project = NoId \/ project \in ids

\* GET /api/tasks, the filters and the second store call: Task.find(query).limit(100)
ListTasks(p, ids0, filters) ==
  /\ rq[p].pc = "projectsFound"
  /\ \E project \in ids0, query \in filters :
       LET ids == rq[p].res.ids
           match == {t \in DOMAIN tasks :
                       /\ tasks[t].project \in (IF project = NoId THEN ids ELSE {project})
                       /\ query.status = NoStatus \/ tasks[t].status = query.status
                       /\ query.priority = NoStatus \/ tasks[t].priority = query.priority}
       IN IF ~ProjectFilterAllowed(ids, project)
            THEN Reply(p, "listTasks", project, NoBody, "Denied", FALSE,
                       Resp(400, "Invalid project ID or project does not belong to you."))
          ELSE \E order \in SortOrders :
                 LET found == First(match, TaskListLimit, order)
                 IN Reply(p, "listTasks", project, NoBody, "Authorized", TRUE,
                          RespWith(200, "Tasks retrieved successfully.", {},
                                   {TaskView(tasks, t) : t \in found}, Cardinality(found)))
  /\ UNCHANGED <<now, users, projects, tasks, projectLog, taskSeq>>

\* the GET routes of the task router, in the order of their registration
TaskGetRoutes == <<":taskId", "", "stats">>

\* a route pattern matches the path segment after /api/tasks/
Matches(pattern, segment) ==
  IF pattern = ":taskId" THEN segment # "" ELSE pattern = segment

\* express hands the request to the first registered route that matches
Dispatch(segment) ==
  LET i == CHOOSE k \in 1..Len(TaskGetRoutes) :
             /\ Matches(TaskGetRoutes[k], segment)
             /\ \A j \in 1..(k - 1) : ~Matches(TaskGetRoutes[j], segment)
  IN TaskGetRoutes[i]

Digit(d) ==
  CASE d = 0 -> "0" [] d = 1 -> "1" [] d = 2 -> "2" [] d = 3 -> "3" [] d = 4 -> "4"
    [] d = 5 -> "5" [] d = 6 -> "6" [] d = 7 -> "7" [] d = 8 -> "8" [] d = 9 -> "9"

\* `${n}` of a natural number
RECURSIVE Decimal(_)
Decimal(n) == IF n < 10 THEN <<Digit(n)>> ELSE Decimal(n \div 10) \o <<Digit(n % 10)>>

\* Math.round(a / b) for a >= 0, b > 0: the nearest integer, a half rounds up
Round(a, b) == (2 * a + b) \div (2 * b)

\* the $group stage over the tasks of the projects of u and the derived figures;
\* a missing dueDate is not null and sorts before every date
TaskStats(projs, tsks, u, t) ==
  LET ids == {i \in DOMAIN projs : projs[i].user = u}
      own == {i \in DOMAIN tsks : tsks[i].project \in ids}
      Status(st) == Cardinality({i \in own : tsks[i].status = st})
      Priority(pr) == Cardinality({i \in own : tsks[i].priority = pr})
      total == Cardinality(own)
      done == Status("Done")
      completionRate == IF total > 0 THEN Round(done * 100, total) ELSE 0
  IN [totalTasks |-> total,
      todoTasks |-> Status("To Do"),
      inProgressTasks |-> Status("In Progress"),
      doneTasks |-> done,
      highPriorityTasks |-> Priority("High"),
      urgentTasks |-> Priority("Urgent"),
      overdueTasks |-> Cardinality({i \in own : /\ tsks[i].dueDate # NullDate
                                                /\ tsks[i].dueDate < t
                                                /\ tsks[i].status # "Done"}),
      completionRate |-> Decimal(completionRate) \o <<"%">>,
      projectCount |-> Cardinality(ids)]

\* GET /api/tasks/stats: the request goes to the first matching route. The handler of
\* '/stats' reads the projects and aggregates the tasks; the route '/:taskId' runs
\* verifyTaskOwnership on the id "stats", which is no ObjectId
GetStats(p) ==
  /\ rq[p].pc = "authed"
  /\ IF Dispatch("stats") = "stats"
       THEN Reply(p, "stats", NoId, NoBody, "Authorized", TRUE,
                  RespStats(200, "Task statistics retrieved successfully.",
                            TaskStats(projects, tasks, rq[p].caller, now)))
     ELSE Reply(p, "stats", BadId, NoBody, "Denied", FALSE,
                TaskOwnershipOutcome(tasks, projects, BadId, rq[p].caller))
  /\ UNCHANGED <<now, users, projects, tasks, projectLog, taskSeq>>

\* the catch blocks: a store call of the request in flight throws
ServerErrorMessage(op) ==
  CASE op = "getProject" -> "Server error fetching project."
    [] op = "updateProject" -> "Server error during project update."
    [] op = "deleteProject" -> "Server error during project deletion."
    [] op = "listProjectTasks" -> "Server error fetching project tasks."
    [] op = "createTask" -> "Server error during task creation."
    [] op = "getTask" -> "Server error fetching task."
    [] op = "updateTask" -> "Server error during task update."
    [] op = "deleteTask" -> "Server error during task deletion."
    [] op = "listTasks" -> "Server error fetching tasks."
    [] OTHER -> "Something went wrong!"

StoreError(p) ==
  /\ rq[p].pc \notin {"idle", "done", "authed"}
  /\ rq' = [Forget(rq) EXCEPT ![p] = [rq[p] EXCEPT !.pc = "done", !.res = NoDoc,
                                       !.resp = Resp(500, ServerErrorMessage(rq[p].op))]]
  /\ UNCHANGED <<now, users, projects, tasks, projectLog, taskSeq>>

-----------------------------------------------------------------------------
(* Registration and login. *)

UsernameMinLen == 3
UsernameMaxLen == 30
PasswordMinLen == 6

WordChars == {"a", "b", "i", "o", "x", "A", "B", "_", "1"}

\* \w+([.-]?\w+)*
WordRuns(s) ==
  /\ s # <<>>
  /\ s[1] \in WordChars
  /\ s[Len(s)] \in WordChars
  /\ \A i \in 1..Len(s) : s[i] \in WordChars \cup {".", "-"}
  /\ \A i \in 1..(Len(s) - 1) : s[i] \in WordChars \/ s[i + 1] \in WordChars

\* (\.\w{2,3})+
RECURSIVE DotGroups(_)
DotGroups(s) ==
  /\ s # <<>>
  /\ s[1] = "."
  /\ \E k \in {2, 3} :
       /\ Len(s) >= k + 1
       /\ \A i \in 2..(k + 1) : s[i] \in WordChars
       /\ Len(s) = k + 1 \/ DotGroups(SubSeq(s, k + 2, Len(s)))

\* the schema's match: /^\w+([.-]?\w+)*@\w+([.-]?\w+)*(\.\w{2,3})+$/
EmailMatches(s) ==
  \E at \in 1..Len(s) :
    /\ s[at] = "@"
    /\ WordRuns(SubSeq(s, 1, at - 1))
    /\ \E cut \in (at + 1)..Len(s) :
         /\ WordRuns(SubSeq(s, at + 1, cut))
         /\ DotGroups(SubSeq(s, cut + 1, Len(s)))

\* no digest: the secret as submitted, for comparison
HashPlain(password) == password

\* bcrypt: a one-way digest of the secret
Hash(password) == <<"bcrypt", password>>

\* userSchema.methods.comparePassword
ComparePassword(candidate, digest) == Hash(candidate) = digest

\* schema validation run by save() on a user document (before the hashing hook)
ValidUser(doc) ==
  /\ doc.username # <<>>
  /\ Len(doc.username) >= UsernameMinLen
  /\ Len(doc.username) <= UsernameMaxLen
  /\ doc.email # <<>>
  /\ EmailMatches(doc.email)
  /\ doc.password # <<>>
  /\ Len(doc.password) >= PasswordMinLen

FindByEmail(us, email) == {u \in DOMAIN us : us[u].email = email}

\* a collection without the unique index on email, for comparison
DuplicateEmailNever(us, doc) == FALSE

\* email: { unique: true }: inserting doc would collide (E11000)
DuplicateEmail(us, doc) == \E u \in DOMAIN us : us[u].email = doc.email

Credentials(username, email, password) ==
  [username |-> username, email |-> email, password |-> password]

Ann == <<"a", "@", "x", ".", "i", "o">>
Bob == <<"b", "@", "x", ".", "i", "o">>
Secret == <<"s", "e", "c", "r", "e", "t">>
Hunter == <<"h", "u", "n", "t", "e", "r">>

RegisterBodies ==
  {Credentials(<<"a", "n", "n">>, Ann, Secret),
   Credentials(<<"a", "n", "n">>, <<"A", "@", "x", ".", "i", "o">>, Hunter),
   Credentials(<<"a", "n", "n">>, <<" ", "a", "@", "x", ".", "i", "o">>, Secret),
   Credentials(<<"b", "o", "b">>, Bob, Hunter),
   Credentials(<<"b", "o", "b">>, <<"b", ".", "b", "@", "x", ".", "i", "o">>, Secret),
   Credentials(<<"b", "o">>, Bob, Hunter),
   Credentials(<<"b", "o", "b">>, <<"b", "@", "x">>, Hunter),
   Credentials(<<"b", "o", "b">>, Bob, <<"p", "w">>),
   Credentials(Undef, Bob, Hunter)}

LoginBodies ==
  {Credentials(Undef, e, w) :
     e \in {Ann, <<"A", "@", "x", ".", "i", "o", " ">>, Bob, Undef},
     w \in {Secret, Hunter, Undef}}

\* POST /api/users/register, up to User.findOne({ email })
RegisterCheck(p, bodies) ==
  /\ rq[p].pc \in {"idle", "done"}
  /\ \E body \in bodies :
       IF Falsy(body.username) \/ Falsy(body.email) \/ Falsy(body.password)
         THEN rq' = [Forget(rq) EXCEPT ![p] =
                       [Idle EXCEPT !.op = "register", !.pc = "done", !.body = body,
                          !.resp = Resp(400, "Please provide username, email, and password.")]]
       ELSE IF FindByEmail(users, ToLowerCase(body.email)) # {}
         THEN rq' = [Forget(rq) EXCEPT ![p] =
                       [Idle EXCEPT !.op = "register", !.pc = "done", !.body = body,
                          !.resp = Resp(400, "User with this email already exists.")]]
       ELSE rq' = [rq EXCEPT ![p] = [Idle EXCEPT !.op = "register", !.pc = "emailFree",
                                                !.body = body]]
  /\ UNCHANGED <<now, users, projects, tasks, projectLog, taskSeq>>

\* POST /api/users/register, user.save() and the response
Register(p) ==
  /\ rq[p].pc = "emailFree"
  /\ LET body == rq[p].body
         id == NewUserId
         doc == [username |-> Trim(body.username),
                 email |-> Trim(ToLowerCase(body.email)),
                 password |-> body.password]
     IN IF ~ValidUser(doc)
          THEN /\ Reply(p, "register", NoId, body, "Unauthenticated", FALSE,
                        Resp(400, "Validation error."))
               /\ UNCHANGED users
        ELSE IF DuplicateEmail(users, doc)
          THEN \* the unique index on email (E11000)
               /\ Reply(p, "register", NoId, body, "Unauthenticated", FALSE,
                        Resp(400, "User with this email already exists."))
               /\ UNCHANGED users
        ELSE /\ id <= MaxUsers
             /\ users' = Insert(users, id, [doc EXCEPT !.password = Hash(doc.password)])
             /\ Reply(p, "register", NoId, body, "Unauthenticated", FALSE,
                      RespUser(201, "User registered successfully.", id, doc))
  /\ UNCHANGED <<now, projects, tasks, projectLog, taskSeq>>

\* a login that answers a missing account differently from a wrong secret, for comparison
LoginOutcomeLeaky(us, body) ==
  LET found == FindByEmail(us, Trim(ToLowerCase(body.email)))
  IN IF Falsy(body.email) \/ Falsy(body.password)
       THEN Resp(400, "Please provide email and password.")
     ELSE IF found = {} THEN Resp(404, "User not found.")
     ELSE LET u == CHOOSE x \in found : TRUE
          IN IF ~ComparePassword(body.password, us[u].password)
               THEN Resp(401, "Invalid email or password.")
             ELSE RespUser(200, "Login successful.", u, us[u])

\* POST /api/users/login: the response to body when the users collection is us
LoginOutcome(us, body) ==
  LET found == FindByEmail(us, Trim(ToLowerCase(body.email)))
  IN IF Falsy(body.email) \/ Falsy(body.password)
       THEN Resp(400, "Please provide email and password.")
     ELSE IF found = {} THEN Resp(401, "Invalid email or password.")
     ELSE LET u == CHOOSE x \in found : TRUE
          IN IF ~ComparePassword(body.password, us[u].password)
               THEN Resp(401, "Invalid email or password.")
             ELSE RespUser(200, "Login successful.", u, us[u])

\* POST /api/users/login
Login(p, bodies) ==
  /\ rq[p].pc \in {"idle", "done"}
  /\ \E body \in bodies :
       rq' = [Forget(rq) EXCEPT ![p] =
                [Idle EXCEPT !.op = "login", !.pc = "done", !.body = body,
                             !.resp = LoginOutcome(users, body)]]
  /\ UNCHANGED <<now, users, projects, tasks, projectLog, taskSeq>>

\* GET /api/users/profile: req.user is the document authenticateToken fetched
\* with select('-password')
Profile(p) ==
  /\ rq[p].pc = "authed"
  /\ LET user == Select(users[rq[p].caller], DOMAIN users[rq[p].caller] \ {"password"})
     IN Reply(p, "profile", NoId, NoBody, "Authorized", TRUE,
              RespUser(200, "", rq[p].caller, user))
  /\ UNCHANGED <<now, users, projects, tasks, projectLog, taskSeq>>

-----------------------------------------------------------------------------
(* The project router of the controllers draft ("Lab 2"): its authentication
   middleware is commented out, and its Project model makes the owner optional. *)

LabBody(name, description, user) ==
  [name |-> name, description |-> description, status |-> NoStatus, user |-> user]

LabBodies ==
  {LabBody(<<"a", "b", "c">>, <<"d">>, NoUser),
   LabBody(<<"a", "b", "c">>, <<"d">>, 1),
   LabBody(<<"x">>, <<"d">>, 2),
   LabBody(Undef, <<"d">>, NoUser),
   LabBody(<<"x">>, Undef, 1)}

\* the response of a request that arrives on connection p and is answered at once
LabReply(p, op, id, body, accessed, r) ==
  rq' = [Forget(rq) EXCEPT ![p] = [Idle EXCEPT !.op = op, !.pc = "done", !.id = id,
                                              !.body = body, !.resp = r,
                                              !.accessed = accessed]]

\* GET /api/projects
LabListProjects(p) ==
  /\ rq[p].pc \in {"idle", "done"}
  /\ LabReply(p, "listProjects", NoId, NoBody, TRUE,
              RespWith(200, "", DOMAIN projects, {}, 0))
  /\ UNCHANGED <<now, users, projects, tasks, projectLog, taskSeq>>

\* POST /api/projects
LabCreateProject(p, bodies) ==
  /\ rq[p].pc \in {"idle", "done"}
  /\ \E body \in bodies :
       LET id == NewProjectId
       IN IF Falsy(body.name) \/ Falsy(body.description)
            THEN \* ValidationError: name and description are required
                 /\ LabReply(p, "createProject", NoId, body, FALSE,
                             Resp(500, "Project validation failed"))
                 /\ UNCHANGED <<projects, projectLog>>
          ELSE /\ id <= MaxProjects
               /\ projects' = Insert(projects, id, body)
               /\ projectLog' = Insert(projectLog, id, body.user)
               /\ LabReply(p, "createProject", id, body, TRUE,
                           RespWith(201, "", {id}, {}, 0))
  /\ UNCHANGED <<now, users, tasks, taskSeq>>

\* Project.findById(projectId) of GET, PUT and DELETE /api/projects/:projectId
LabFindById(p, ops, ids) ==
  /\ rq[p].pc \in {"idle", "done"}
  /\ \E op \in ops, id \in ids :
       IF id = BadId
         THEN LabReply(p, op, id, NoBody, FALSE, Resp(500, "Cast to ObjectId failed"))
       ELSE IF id \notin DOMAIN projects
         THEN LabReply(p, op, id, NoBody, FALSE,
                       Resp(404, IF op = "getProject" THEN "Project with id not found!"
                                 ELSE "Project not found"))
       ELSE rq' = [rq EXCEPT ![p] = [Idle EXCEPT !.op = op, !.pc = "found", !.id = id,
                                                !.res = projects[id], !.accessed = TRUE]]
  /\ UNCHANGED <<now, users, projects, tasks, projectLog, taskSeq>>

\* GET /api/projects/:projectId
LabGetProject(p) ==
  /\ rq[p].pc = "found"
  /\ rq[p].op = "getProject"
  /\ LabReply(p, "getProject", rq[p].id, NoBody, TRUE,
              RespWith(200, "", {rq[p].id}, {}, 0))
  /\ UNCHANGED <<now, users, projects, tasks, projectLog, taskSeq>>

\* PUT /api/projects/:projectId
LabUpdateProject(p, bodies) ==
  /\ rq[p].pc = "found"
  /\ rq[p].op = "updateProject"
  /\ \E body \in bodies :
       LET id == rq[p].id
           old == rq[p].res
           doc == [old EXCEPT !.name = IF Falsy(body.name) THEN old.name ELSE body.name,
                              !.description = IF Falsy(body.description)
                                                THEN old.description ELSE body.description]
       IN IF id \notin DOMAIN projects
            THEN /\ LabReply(p, "updateProject", id, body, TRUE,
                             Resp(500, "No document found for query"))
                 /\ UNCHANGED projects
          ELSE /\ projects' =
                    [projects EXCEPT ![id] =
                       [@ EXCEPT !.name = IF doc.name # old.name THEN doc.name ELSE @,
                                 !.description = IF doc.description # old.description
                                                   THEN doc.description ELSE @]]
               /\ LabReply(p, "updateProject", id, body, TRUE,
                           RespWith(200, "", {id}, {}, 0))
  /\ UNCHANGED <<now, users, tasks, projectLog, taskSeq>>

\* DELETE /api/projects/:projectId
LabDeleteProject(p) ==
  /\ rq[p].pc = "found"
  /\ rq[p].op = "deleteProject"
  /\ projects' = Remove(projects, {rq[p].id})
  /\ LabReply(p, "deleteProject", rq[p].id, NoBody, TRUE,
              RespWith(200, "Project deleted successfully", {rq[p].id}, {}, 0))
  /\ UNCHANGED <<now, users, tasks, projectLog, taskSeq>>

-----------------------------------------------------------------------------
(* The project router of the first draft (src/unnamed/part_000) behind the
   authMiddleware of src/controllers/projectControllers.js. *)

\* signToken: jwt.sign({ data: { username, email, _id } }, secret, { expiresIn: "24h" })
SignToken(userId) == [userId |-> userId, sig |-> "valid", expired |-> FALSE]

\* authMiddleware: the response it sends, or the token data it attaches as req.user
AuthMiddleware(hdr) ==
  IF ~hdr.present \/ hdr.token = EmptyToken
    THEN [ok |-> FALSE, user |-> NoUser, resp |-> Resp(403, "Please Login or Register")]
  ELSE IF hdr.token.sig # "valid" \/ hdr.token.expired
    THEN [ok |-> FALSE, user |-> NoUser, resp |-> Resp(401, "Invalid or expired token")]
  ELSE [ok |-> TRUE, user |-> hdr.token.userId, resp |-> NoResp]

\* router.use(authMiddleware): a new request arrives on connection p
DraftAuthenticate(p, headers) ==
  /\ rq[p].pc \in {"idle", "done"}
  /\ \E hdr \in headers :
       LET a == AuthMiddleware(hdr)
       IN IF a.ok
            THEN rq' = [rq EXCEPT ![p] = [Idle EXCEPT !.pc = "authed", !.caller = a.user,
                                                     !.phase = "Authenticated"]]
            ELSE rq' = [Forget(rq) EXCEPT ![p] =
                          [Idle EXCEPT !.op = "authenticate", !.pc = "done", !.body = hdr,
                                       !.resp = a.resp]]
  /\ UNCHANGED <<now, users, projects, tasks, projectLog, taskSeq>>

\* GET /api/projects
DraftListProjects(p) ==
  /\ rq[p].pc = "authed"
  /\ Reply(p, "listProjects", NoId, NoBody, "Authorized", TRUE,
           RespWith(200, "", OwnedBy(projects, rq[p].caller), {}, 0))
  /\ UNCHANGED <<now, users, projects, tasks, projectLog, taskSeq>>

\* POST /api/projects: Project.create({ ...req.body, user: req.user._id })
DraftCreateProject(p, bodies) ==
  /\ rq[p].pc = "authed"
  /\ \E body \in bodies :
       LET id == NewProjectId
           doc == [body EXCEPT !.user = rq[p].caller]
       IN IF Falsy(body.name) \/ Falsy(body.description)
            THEN /\ Reply(p, "createProject", NoId, body, "Authorized", FALSE,
                          Resp(500, "Project validation failed"))
                 /\ UNCHANGED <<projects, projectLog>>
          ELSE /\ id <= MaxProjects
               /\ projects' = Insert(projects, id, doc)
               /\ projectLog' = Insert(projectLog, id, doc.user)
               /\ Reply(p, "createProject", id, body, "Authorized", TRUE,
                        RespWith(201, "", {id}, {}, 0))
  /\ UNCHANGED <<now, users, tasks, taskSeq>>

\* Project.findById(projectId) and the ownership check of GET, PUT and DELETE
\* /api/projects/:projectId
DraftFindById(p, ops, ids) ==
  /\ rq[p].pc = "authed"
  /\ \E op \in ops, id \in ids :
       IF id = BadId
         THEN Reply(p, op, id, NoBody, "Denied", FALSE, Resp(500, "Cast to ObjectId failed"))
       ELSE IF id \notin DOMAIN projects
         THEN Reply(p, op, id, NoBody, "Denied", FALSE,
                    Resp(404, IF op = "getProject" THEN "Project with id not found!"
                              ELSE "Project not found"))
       ELSE IF projects[id].user # rq[p].caller
         THEN Reply(p, op, id, NoBody, "Denied", FALSE, Resp(403, "Access denied"))
       ELSE rq' = [rq EXCEPT ![p] = [@ EXCEPT !.op = op, !.pc = "found", !.id = id,
                                              !.res = projects[id], !.phase = "Authorized"]]
  /\ UNCHANGED <<now, users, projects, tasks, projectLog, taskSeq>>

\* GET /api/projects/:projectId
DraftGetProject(p) ==
  /\ rq[p].pc = "found"
  /\ rq[p].op = "getProject"
  /\ Reply(p, "getProject", rq[p].id, NoBody, "Authorized", TRUE,
           RespWith(200, "", {rq[p].id}, {}, 0))
  /\ UNCHANGED <<now, users, projects, tasks, projectLog, taskSeq>>

\* PUT /api/projects/:projectId
DraftUpdateProject(p, bodies) ==
  /\ rq[p].pc = "found"
  /\ rq[p].op = "updateProject"
  /\ \E body \in bodies :
       LET id == rq[p].id
           old == rq[p].res
           doc == [old EXCEPT !.name = IF Falsy(body.name) THEN old.name ELSE body.name,
                              !.description = IF Falsy(body.description)
                                                THEN old.description ELSE body.description]
       IN IF id \notin DOMAIN projects
            THEN /\ Reply(p, "updateProject", id, body, "Authorized", TRUE,
                          Resp(500, "No document found for query"))
                 /\ UNCHANGED projects
          ELSE /\ projects' =
                    [projects EXCEPT ![id] =
                       [@ EXCEPT !.name = IF doc.name # old.name THEN doc.name ELSE @,
                                 !.description = IF doc.description # old.description
                                                   THEN doc.description ELSE @]]
               /\ Reply(p, "updateProject", id, body, "Authorized", TRUE,
                        RespWith(200, "", {id}, {}, 0))
  /\ UNCHANGED <<now, users, tasks, projectLog, taskSeq>>

\* DELETE /api/projects/:projectId
DraftDeleteProject(p) ==
  /\ rq[p].pc = "found"
  /\ rq[p].op = "deleteProject"
  /\ projects' = Remove(projects, {rq[p].id})
  /\ Reply(p, "deleteProject", rq[p].id, NoBody, "Authorized", TRUE,
           RespWith(200, "Project deleted successfully", {rq[p].id}, {}, 0))
  /\ UNCHANGED <<now, users, tasks, projectLog, taskSeq>>

-----------------------------------------------------------------------------
(* The task router of the first draft, behind authMiddleware. *)

\* PUT /api/tasks/:taskId, Task.findById(taskId).populate("project") and the
\* ownership check
DraftFindTask(p, ids) ==
  /\ rq[p].pc = "authed"
  /\ \E id \in ids :
       IF id = BadId
         THEN Reply(p, "draftUpdateTask", id, NoBody, "Denied", FALSE,
                    Resp(500, "Cast to ObjectId failed"))
       ELSE IF id \notin DOMAIN tasks
         THEN Reply(p, "draftUpdateTask", id, NoBody, "Denied", FALSE,
                    Resp(404, "Task not found"))
       ELSE IF tasks[id].project \notin DOMAIN projects
         THEN \* task.project is null, task.project.user throws a TypeError
              Reply(p, "draftUpdateTask", id, NoBody, "Denied", FALSE,
                    Resp(500, "Cannot read properties of null"))
       ELSE IF projects[tasks[id].project].user # rq[p].caller
         THEN Reply(p, "draftUpdateTask", id, NoBody, "Denied", FALSE,
                    Resp(403, "User not authorized"))
       ELSE rq' = [rq EXCEPT ![p] = [@ EXCEPT !.op = "draftUpdateTask", !.pc = "found",
                                              !.id = id, !.res = tasks[id],
                                              !.phase = "Authorized"]]
  /\ UNCHANGED <<now, users, projects, tasks, projectLog, taskSeq>>

\* PUT /api/tasks/:taskId, task.x = req.body.x || task.x, task.save() and the response
DraftUpdateTask(p, patches) ==
  /\ rq[p].pc = "found"
  /\ rq[p].op = "draftUpdateTask"
  /\ \E body \in patches :
       LET id == rq[p].id
           old == rq[p].res
           doc == [title |-> IF Falsy(body.title) THEN old.title ELSE Trim(body.title),
                   description |-> IF Falsy(body.description) THEN old.description
                                   ELSE Trim(body.description),
                   status |-> IF body.status = NoStatus THEN old.status ELSE body.status,
                   priority |-> IF body.priority = NoStatus THEN old.priority
                                ELSE body.priority,
                   project |-> old.project,
                   dueDate |-> IF body.dueDate \in {NoDate, NullDate, 0} THEN old.dueDate
                               ELSE body.dueDate]
           \* save() validates the document and writes the paths that changed
           stored == [title |-> IF doc.title # old.title THEN doc.title ELSE tasks[id].title,
                      description |-> IF doc.description # old.description
                                      THEN doc.description ELSE tasks[id].description,
                      status |-> IF doc.status # old.status THEN doc.status
                                 ELSE tasks[id].status,
                      priority |-> IF doc.priority # old.priority THEN doc.priority
                                   ELSE tasks[id].priority,
                      project |-> tasks[id].project,
                      dueDate |-> IF doc.dueDate # old.dueDate THEN doc.dueDate
                                  ELSE tasks[id].dueDate]
       IN IF ~ValidTask(doc) \/ ~ValidDueDate(doc.dueDate, now)
            THEN /\ Reply(p, "draftUpdateTask", id, body, "Authorized", FALSE,
                          Resp(500, "Task validation failed"))
                 /\ UNCHANGED tasks
          ELSE IF id \notin DOMAIN tasks
            THEN /\ Reply(p, "draftUpdateTask", id, body, "Authorized", TRUE,
                          Resp(500, "No document found for query"))
                 /\ UNCHANGED tasks
          ELSE /\ tasks' = [tasks EXCEPT ![id] = stored]
               /\ Reply(p, "draftUpdateTask", id, body, "Authorized", TRUE,
                        RespWith(200, "", {}, {TaskDetail(id, doc)}, 0))
  /\ UNCHANGED <<now, users, projects, projectLog, taskSeq>>

-----------------------------------------------------------------------------
(* The project controllers, behind authMiddleware. *)

\* createProject: Project.create({ name, description, user: req.user._id })
CtlCreateProject(p, bodies) ==
  /\ rq[p].pc = "authed"
  /\ \E body \in bodies :
       LET id == NewProjectId
           doc == [name |-> body.name, description |-> body.description,
                   status |-> NoStatus, user |-> rq[p].caller]
       IN IF Falsy(body.name) \/ Falsy(body.description)
            THEN /\ Reply(p, "createProject", NoId, body, "Authorized", FALSE,
                          Resp(500, "Server error creating project"))
                 /\ UNCHANGED <<projects, projectLog>>
          ELSE /\ id <= MaxProjects
               /\ projects' = Insert(projects, id, doc)
               /\ projectLog' = Insert(projectLog, id, doc.user)
               /\ Reply(p, "createProject", id, body, "Authorized", TRUE,
                        RespWith(201, "", {id}, {}, 0))
  /\ UNCHANGED <<now, users, tasks, taskSeq>>

\* the update document req.body applied to doc: every schema path it supplies is set
ApplyBody(doc, body) ==
  [name |-> IF body.name # Undef THEN body.name ELSE doc.name,
   description |-> IF body.description # Undef THEN body.description ELSE doc.description,
   status |-> doc.status,
   user |-> IF body.user # NoUser THEN body.user ELSE doc.user]

\* updateProject: Project.findOneAndUpdate({ _id, user: req.user._id }, req.body,
\* { new: true, runValidators: true })
CtlUpdateProject(p, ids, bodies) ==
  /\ rq[p].pc = "authed"
  /\ \E id \in ids, body \in bodies :
       IF id = BadId
         THEN /\ Reply(p, "updateProject", id, body, "Denied", FALSE,
                       Resp(500, "Server error updating project"))
              /\ UNCHANGED projects
       ELSE IF id \notin DOMAIN projects \/ projects[id].user # rq[p].caller
         THEN /\ Reply(p, "updateProject", id, body, "Denied", FALSE,
                       Resp(404, "Project not found or unauthorized"))
              /\ UNCHANGED projects
       ELSE IF body.name = <<>> \/ body.description = <<>>
         THEN /\ Reply(p, "updateProject", id, body, "Authorized", FALSE,
                       Resp(500, "Server error updating project"))
              /\ UNCHANGED projects
       ELSE /\ projects' = [projects EXCEPT ![id] = ApplyBody(@, body)]
            /\ Reply(p, "updateProject", id, body, "Authorized", TRUE,
                     RespWith(200, "", {id}, {}, 0))
  /\ UNCHANGED <<now, users, tasks, projectLog, taskSeq>>

\* deleteProject, first store call: Project.findOne({ _id, user: req.user._id })
CtlFindProject(p, ids) ==
  /\ rq[p].pc = "authed"
  /\ \E id \in ids :
       IF id = BadId
         THEN Reply(p, "deleteProject", id, NoBody, "Denied", FALSE,
                    Resp(500, "Server error deleting project"))
       ELSE IF id \notin DOMAIN projects \/ projects[id].user # rq[p].caller
         THEN Reply(p, "deleteProject", id, NoBody, "Denied", FALSE,
                    Resp(404, "Project not found or unauthorized"))
       ELSE rq' = [rq EXCEPT ![p] = [@ EXCEPT !.op = "deleteProject", !.pc = "found",
                                              !.id = id, !.res = projects[id],
                                              !.phase = "Authorized"]]
  /\ UNCHANGED <<now, users, projects, tasks, projectLog, taskSeq>>

\* deleteProject, second store call: project.deleteOne(), and the response
CtlDeleteProject(p) ==
  /\ rq[p].pc = "found"
  /\ rq[p].op = "deleteProject"
  /\ projects' = Remove(projects, {rq[p].id})
  /\ Reply(p, "deleteProject", rq[p].id, NoBody, "Authorized", TRUE,
           RespWith(200, "Project deleted", {rq[p].id}, {}, 0))
  /\ UNCHANGED <<now, users, tasks, projectLog, taskSeq>>

-----------------------------------------------------------------------------
(* The specifications: one per draft and workload. *)

\* the two accounts of the clients
RegisteredUsers ==
  (1 :> [username |-> <<"a", "n", "n">>, email |-> Ann, password |-> Hash(Secret)])
    @@ (2 :> [username |-> <<"b", "o", "b">>, email |-> Bob, password |-> Hash(Hunter)])

Init ==
  /\ now = 1
  /\ users = RegisteredUsers
  /\ projects = EmptyStore
  /\ tasks = EmptyStore
  /\ projectLog = EmptyStore
  /\ taskSeq = 0
  /\ rq = [p \in Procs |-> Idle]

\* an empty users collection
InitAuth ==
  /\ now = 1
  /\ users = EmptyStore
  /\ projects = EmptyStore
  /\ tasks = EmptyStore
  /\ projectLog = EmptyStore
  /\ taskSeq = 0
  /\ rq = [p \in Procs |-> Idle]

\* the numbers of tasks user 1 has in the store: below, at and above the limit
SeedCounts == {TaskListLimit - 1, TaskListLimit, TaskListLimit + 1}

\* the store after user 1 created one project and n tasks in it, every third one done
InitList ==
  /\ now = 1
  /\ users = RegisteredUsers
  /\ projects = (1 :> [name |-> <<"a", "b", "c">>, description |-> <<"d">>,
                       status |-> "Active", user |-> 1])
  /\ projectLog = (1 :> 1)
  /\ \E n \in SeedCounts :
       /\ tasks = [t \in 1..n |->
                     [title |-> <<"t", "s", "k">>, description |-> <<"d">>,
                      status |-> IF t % 3 = 0 THEN "Done" ELSE "To Do",
                      priority |-> "Medium", project |-> 1, dueDate |-> NoDate]]
       /\ taskSeq = n
  /\ rq = [p \in Procs |-> Idle]

OneProjectBody == {ProjectBody(<<"a", "b", "c">>, <<"d">>, NoStatus)}

\* the backend draft: projects and tasks, connection p used by user p
Next ==
  \E p \in Procs :
    \/ Authenticate(p, {NoHeader} \cup TokensOf({p}))
    \/ CreateProject(p, OneProjectBody)
    \/ VerifyOwnership(p, {"deleteProject"}, ProjectIdIn)
    \/ DeleteProjectCount(p)
    \/ DeleteProjectTasks(p)
    \/ DeleteProject(p)
    \/ ListProjectTasksCheck(p, ProjectIdIn)
    \/ ListProjectTasks(p, {NoFilter})
    \/ CreateTaskCheck(p, ProjectIdIn, GoodTaskBodies)
    \/ CreateTask(p)
    \/ VerifyTaskOwnership(p, {"getTask", "updateTask", "deleteTask"}, TaskIdIn)
    \/ GetTask(p)
    \/ UpdateTask(p, StatusPatches)
    \/ DeleteTask(p)
    \/ ListTasksProjects(p)
    \/ ListTasks(p, ProjectIdIn \cup {NoId}, {NoFilter})

Spec == Init /\ [][Next]_vars

\* the backend draft: the project routes, either user on either connection
NextProjects ==
  \E p \in Procs :
    \/ Authenticate(p, HeadersOf(DOMAIN users))
    \/ CreateProject(p, ProjectBodies)
    \/ ListProjects(p)
    \/ VerifyOwnership(p, {"getProject", "updateProject", "deleteProject"},
                       ProjectIdIn \cup {BadId})
    \/ GetProject(p)
    \/ UpdateProject(p, ProjectPatches)
    \/ DeleteProjectCount(p)
    \/ DeleteProjectTasks(p)
    \/ DeleteProject(p)

SpecProjects == Init /\ [][NextProjects]_vars

\* the backend draft: one user on both connections, deletions against task
\* creations, and store calls that throw
NextCascade ==
  \E p \in Procs :
    \/ Authenticate(p, TokensOf({1}))
    \/ CreateProject(p, OneProjectBody)
    \/ VerifyOwnership(p, {"deleteProject"}, ProjectIdIn)
    \/ DeleteProjectCount(p)
    \/ DeleteProjectTasks(p)
    \/ DeleteProject(p)
    \/ CreateTaskCheck(p, ProjectIdIn, GoodTaskBodies)
    \/ CreateTask(p)
    \/ VerifyTaskOwnership(p, {"getTask"}, TaskIdIn \cup {BadId})
    \/ GetTask(p)
    \/ StoreError(p)

SpecCascade == Init /\ [][NextCascade]_vars

\* registration and login
NextAuth ==
  \E p \in Procs :
    \/ RegisterCheck(p, RegisterBodies)
    \/ Register(p)
    \/ Login(p, LoginBodies)

SpecAuth == InitAuth /\ [][NextAuth]_vars

AccountBodies ==
  {Credentials(<<"a", "n", "n">>, Ann, Secret),
   Credentials(<<"b", "o", "b">>, Bob, Hunter)}

\* accounts from registration to their first requests
NextAccount ==
  \E p \in Procs :
    \/ RegisterCheck(p, AccountBodies)
    \/ Register(p)
    \/ Login(p, AccountBodies)
    \/ Authenticate(p, {NoHeader} \cup TokensOf(1..MaxUsers))
    \/ Profile(p)
    \/ CreateProject(p, OneProjectBody)
    \/ ListProjects(p)

SpecAccount == InitAuth /\ [][NextAccount]_vars

\* the first draft's project router behind authMiddleware
NextDraft ==
  \E p \in Procs :
    \/ DraftAuthenticate(p, HeadersOf(DOMAIN users))
    \/ DraftListProjects(p)
    \/ DraftCreateProject(p, LabBodies)
    \/ DraftFindById(p, {"getProject", "updateProject", "deleteProject"},
                     ProjectIdIn \cup {BadId})
    \/ DraftGetProject(p)
    \/ DraftUpdateProject(p, LabBodies)
    \/ DraftDeleteProject(p)

SpecDraft == Init /\ [][NextDraft]_vars

\* a user record is deleted from the store, by an operator or another service:
\* no route of the repository deletes users
RemoveUser(u) ==
  /\ u \in DOMAIN users
  /\ users' = Remove(users, {u})
  /\ UNCHANGED <<now, projects, tasks, projectLog, taskSeq, rq>>

\* the first draft's project router while user records are deleted
NextRevoked ==
  \/ \E u \in DOMAIN RegisteredUsers : RemoveUser(u)
  \/ \E p \in Procs :
       \/ DraftAuthenticate(p, TokensOf(DOMAIN RegisteredUsers))
       \/ DraftListProjects(p)
       \/ DraftCreateProject(p, LabBodies)

SpecRevoked == Init /\ [][NextRevoked]_vars

\* time passes
Tick ==
  /\ now < MaxTime
  /\ now' = now + 1
  /\ UNCHANGED <<users, projects, tasks, projectLog, taskSeq, rq>>

\* the backend draft: tasks with due dates while time passes, one user
NextDue ==
  \/ Tick
  \/ \E p \in Procs :
       \/ Authenticate(p, TokensOf({1}))
       \/ CreateProject(p, OneProjectBody)
       \/ CreateTaskCheck(p, ProjectIdIn, DueBodies)
       \/ CreateTask(p)
       \/ VerifyTaskOwnership(p, {"updateTask"}, TaskIdIn)
       \/ UpdateTask(p, DuePatches)

SpecDue == Init /\ [][NextDue]_vars

\* the backend draft: the task list of a user with about a hundred tasks
NextList ==
  \E p \in Procs :
    \/ Authenticate(p, {NoHeader} \cup TokensOf(DOMAIN users))
    \/ ListTasksProjects(p)
    \/ ListTasks(p, ProjectIdIn \cup {NoId}, TaskFilters \cup {[status |-> "Done", priority |-> NoStatus]})
    \/ VerifyTaskOwnership(p, {"deleteTask"}, TaskIdIn)
    \/ DeleteTask(p)

SpecList == InitList /\ [][NextList]_vars

\* the backend draft: the status of tasks with a due date is patched while time passes
NextPatch ==
  \/ Tick
  \/ \E p \in Procs :
       \/ Authenticate(p, TokensOf({1}))
       \/ CreateProject(p, OneProjectBody)
       \/ CreateTaskCheck(p, ProjectIdIn, {Due(body, d) : body \in GoodTaskBodies,
                                                         d \in {NoDate, 1, MaxTime}})
       \/ CreateTask(p)
       \/ VerifyTaskOwnership(p, {"patchStatus"}, TaskIdIn)
       \/ PatchStatus(p, PatchStatuses)

SpecPatch == Init /\ [][NextPatch]_vars

\* task updates through the backend draft and through the first draft router, one
\* user, tasks with a due date
NextUpdate ==
  \E p \in Procs :
    \/ Authenticate(p, TokensOf({1}))
    \/ DraftAuthenticate(p, {NoHeader} \cup TokensOf({1}))
    \/ CreateProject(p, OneProjectBody)
    \/ CreateTaskCheck(p, ProjectIdIn, {Due(body, MaxTime) : body \in GoodTaskBodies})
    \/ CreateTask(p)
    \/ VerifyTaskOwnership(p, {"updateTask"}, TaskIdIn)
    \/ UpdateTask(p, UpdatePatches)
    \/ DraftFindTask(p, TaskIdIn)
    \/ DraftUpdateTask(p, UpdatePatches)

SpecUpdate == Init /\ [][NextUpdate]_vars

\* the project controllers behind authMiddleware
NextController ==
  \E p \in Procs :
    \/ DraftAuthenticate(p, HeadersOf(DOMAIN users))
    \/ CtlCreateProject(p, LabBodies)
    \/ CtlUpdateProject(p, ProjectIdIn \cup {BadId}, LabBodies)
    \/ CtlFindProject(p, ProjectIdIn \cup {BadId})
    \/ CtlDeleteProject(p)

SpecController == Init /\ [][NextController]_vars

\* the backend draft: one user; tasks are created, their status is patched and read,
\* and their project is deleted
NextStatus ==
  \E p \in Procs :
    \/ Authenticate(p, TokensOf({1}))
    \/ CreateProject(p, OneProjectBody)
    \/ VerifyOwnership(p, {"deleteProject"}, ProjectIdIn)
    \/ DeleteProjectCount(p)
    \/ DeleteProjectTasks(p)
    \/ DeleteProject(p)
    \/ CreateTaskCheck(p, ProjectIdIn, GoodTaskBodies)
    \/ CreateTask(p)
    \/ VerifyTaskOwnership(p, {"getTask", "patchStatus"}, TaskIdIn)
    \/ GetTask(p)
    \/ PatchStatus(p, PatchStatuses)

SpecStatus == Init /\ [][NextStatus]_vars

DoneBodies == {TaskBody(<<"t", "s", "k">>, <<"d">>, "Done", NoStatus)}

\* the backend draft: tasks are created, finished or not, and the statistics are asked for
NextStats ==
  \E p \in Procs :
    \/ Authenticate(p, TokensOf({p}))
    \/ CreateProject(p, OneProjectBody)
    \/ CreateTaskCheck(p, ProjectIdIn, GoodTaskBodies \cup DoneBodies)
    \/ CreateTask(p)
    \/ GetStats(p)

SpecStats == Init /\ [][NextStats]_vars

\* the Lab 2 project router
NextLab ==
  \E p \in Procs :
    \/ LabListProjects(p)
    \/ LabCreateProject(p, LabBodies)
    \/ LabFindById(p, {"getProject", "updateProject", "deleteProject"},
                   ProjectIdIn \cup {BadId})
    \/ LabGetProject(p)
    \/ LabUpdateProject(p, LabBodies)
    \/ LabDeleteProject(p)

SpecLab == Init /\ [][NextLab]_vars

-----------------------------------------------------------------------------
(* The properties. *)

DuplicateNameMessage == "You already have a project with this name."

\* the requests that ended in the step: connection p sent its response
Answered(p, op) ==
  /\ rq[p].pc \notin {"idle", "done"}
  /\ rq'[p].pc = "done"
  /\ rq'[p].op = op

\* C1: a project of one user is never in the list or the detail another user gets,
\* and another user's update or delete of it is answered 404 Not Found.
C1_ForeignProjectNotFound ==
  \A p \in Procs :
    rq[p].pc = "done" /\ rq[p].caller # NoUser =>
      /\ rq[p].op \in {"listProjects", "getProject"} /\ rq[p].resp.status = 200
           => \A q \in rq[p].resp.projects : projectLog[q] = rq[p].caller
      /\ ( /\ rq[p].op \in {"updateProject", "deleteProject"}
           /\ rq[p].id \in DOMAIN projects
           /\ projects[rq[p].id].user # rq[p].caller )
           => rq[p].resp.status = 404

\* C2: once a project deletion and the task creations that ran beside it have all
\* completed, no task references a project that is not in the store.
C2_NoTaskOfDeletedProject ==
  (\A p \in Procs : rq[p].pc \in {"idle", "done"})
    => \A t \in DOMAIN tasks : tasks[t].project \in DOMAIN projects

\* C3: a project deletion that fails has not removed the tasks of a project that
\* is still in the store.
C3_DeletionAllOrNothing ==
  \A p \in Procs :
    rq[p].pc = "done" /\ rq[p].op = "deleteProject" /\ rq[p].resp.status # 200
      => ~(rq[p].removed # {} /\ rq[p].id \in DOMAIN projects)

\* C4: a request reads or writes projects only after its caller was authenticated
\* and the ownership of what it touches was established.
C4_AuthorizedBeforeAccess ==
  \A p \in Procs : rq[p].accessed => rq[p].phase = "Authorized"

\* C5: a caller who asks for a project of another user gets exactly the response
\* the same request gets when the project does not exist.
C5_ForeignLooksMissing ==
  \A p \in Procs :
    ( /\ rq[p].pc = "done"
      /\ rq[p].op = "getProject"
      /\ rq[p].id \in DOMAIN projects
      /\ projects[rq[p].id].user # rq[p].caller
      /\ rq[p].caller # NoUser )
      => rq[p].resp = OwnershipOutcome(Remove(projects, {rq[p].id}), rq[p].id, rq[p].caller)

\* C6: task authorization answers 404 Not Found when the parent project of the
\* task does not exist.
C6_OrphanTaskNotFound ==
  \A p \in Procs :
    ( /\ rq[p].pc = "done"
      /\ rq[p].op = "getTask"
      /\ rq[p].phase = "Denied"
      /\ rq[p].id \in DOMAIN tasks
      /\ tasks[rq[p].id].project \notin DOMAIN projects )
      => rq[p].resp.status = 404

\* every task in a successful task response is of a project the caller owns
ReturnedTasksOwned ==
  \A p \in Procs :
    ( /\ rq[p].pc = "done"
      /\ rq[p].op \in {"listTasks", "listProjectTasks", "getTask"}
      /\ rq[p].resp.status = 200 )
      => \A tv \in rq[p].resp.tasks : projectLog[tv.project] = rq[p].caller

\* a task changes or disappears only in a step of a request of the owner of its project
TaskChangesByOwner ==
  \A t \in DOMAIN tasks :
    (t \notin DOMAIN tasks' \/ tasks'[t] # tasks[t])
      => \E p \in Procs :
           /\ rq[p].pc \notin {"idle", "done"}
           /\ rq'[p] # rq[p]
           /\ rq[p].caller = projectLog[tasks[t].project]

\* C7: every task returned by GET /tasks, GET /projects/:projectId/tasks and
\* GET /tasks/:taskId belongs to a project owned by the caller, and no request
\* updates or deletes a task of a project of another user.
C7_OnlyOwnTasks == []ReturnedTasksOwned /\ [][TaskChangesByOwner]_vars

C7_Witness ==
  \E p \in Procs :
    /\ rq[p].pc = "done"
    /\ rq[p].op = "listTasks"
    /\ rq[p].resp.status = 200
    /\ rq[p].resp.tasks # {}
    /\ \E t \in DOMAIN tasks :
         /\ tasks[t].project \in DOMAIN projects
         /\ projects[tasks[t].project].user # rq[p].caller

\* C8: creating a project whose trimmed name is the name of a project of the same
\* owner is answered DuplicateName and creates nothing; when only other owners use
\* the name the creation succeeds. This is a property of every step, whatever
\* other requests are in flight.
C8_DuplicateNameOnCreate ==
  [][\A p \in Procs :
       Answered(p, "createProject") =>
         LET body == rq'[p].body
             u == rq[p].caller
             doc == [name |-> Trim(body.name), description |-> Trim(body.description),
                     status |-> IF body.status = NoStatus THEN "Active" ELSE body.status,
                     user |-> u]
             taken == \E q \in DOMAIN projects :
                        projects[q].user = u /\ projects[q].name = Trim(body.name)
         IN ~Falsy(body.name) /\ ~Falsy(body.description) /\ ValidProject(doc) =>
              IF taken
                THEN /\ rq'[p].resp.status = 400
                     /\ rq'[p].resp.message = DuplicateNameMessage
                     /\ projects' = projects
                ELSE /\ rq'[p].resp.status = 201
                     /\ rq'[p].id \notin DOMAIN projects
                     /\ projects' = Insert(projects, rq'[p].id, doc)]_vars

C8_Witness ==
  \E p \in Procs :
    /\ rq[p].pc = "done"
    /\ rq[p].op = "createProject"
    /\ rq[p].resp.message = DuplicateNameMessage
    /\ \E q1, q2 \in DOMAIN projects :
         /\ projects[q1].user = rq[p].caller
         /\ projects[q2].user # rq[p].caller
         /\ projects[q1].name = Trim(rq[p].body.name)
         /\ projects[q2].name = projects[q1].name

NoDuplicateNames ==
  \A q1, q2 \in DOMAIN projects :
    q1 # q2 /\ projects[q1].user = projects[q2].user => projects[q1].name # projects[q2].name

C10_LoginFailureGeneric ==
  \A p \in Procs :
    ( /\ rq[p].pc = "done"
      /\ rq[p].op = "login"
      /\ ~Falsy(rq[p].body.email)
      /\ ~Falsy(rq[p].body.password)
      /\ rq[p].resp.status # 200 )
      => rq[p].resp = LoginOutcome(EmptyStore, rq[p].body)

C10_Witness ==
  \E p \in Procs :
    /\ rq[p].pc = "done"
    /\ rq[p].op = "login"
    /\ rq[p].resp.status = 401
    /\ \E u \in FindByEmail(users, Trim(ToLowerCase(rq[p].body.email))) :
         ~ComparePassword(rq[p].body.password, users[u].password)


DuplicateEmailMessage == "User with this email already exists."

\* connection p sends the response of an op request in the step
Replied(p, op) ==
  /\ rq'[p] # rq[p]
  /\ rq'[p].pc = "done"
  /\ rq'[p].op = op

NormalizedEmail(email) == Trim(ToLowerCase(email))

UniqueEmails ==
  \A u1, u2 \in DOMAIN users :
    u1 # u2 => NormalizedEmail(users[u1].email) # NormalizedEmail(users[u2].email)

\* C11: a registration whose email, lower-cased and trimmed, is the email of an
\* existing user is rejected and creates no user, with DuplicateIdentity when its
\* fields pass the format constraints; and no two users ever have the same
\* normalized email, whatever registrations run concurrently.
C11_DuplicateEmailRejected ==
  /\ []UniqueEmails
  /\ [][\A p \in Procs :
          Replied(p, "register") =>
            LET body == rq'[p].body
                doc == [username |-> Trim(body.username),
                        email |-> NormalizedEmail(body.email),
                        password |-> body.password]
            IN ( /\ ~Falsy(body.username) /\ ~Falsy(body.email) /\ ~Falsy(body.password)
                 /\ \E u \in DOMAIN users :
                      NormalizedEmail(users[u].email) = NormalizedEmail(body.email) )
                 => /\ rq'[p].resp.status = 400
                    /\ users' = users
                    /\ ValidUser(doc) => rq'[p].resp.message = DuplicateEmailMessage]_vars

C11_Witness ==
  \E p \in Procs :
    /\ rq[p].pc = "done"
    /\ rq[p].op = "register"
    /\ rq[p].resp.message = DuplicateEmailMessage
    /\ FindByEmail(users, rq[p].body.email) = {}
    /\ FindByEmail(users, NormalizedEmail(rq[p].body.email)) # {}


\* no serialized user in a response has a password path or a value that is a
\* stored secret
NoSecretShown ==
  \A p \in Procs :
    \A v \in rq[p].resp.shown :
      /\ "password" \notin DOMAIN v
      /\ \A f \in DOMAIN v : \A u \in DOMAIN users : v[f] # users[u].password

\* the secret stored by a successful registration verifies against the submitted
\* one and is not the submitted one
SecretStoredHashed ==
  \A p \in Procs :
    rq[p].pc = "done" /\ rq[p].op = "register" /\ rq[p].resp.status = 201
      => /\ ComparePassword(rq[p].body.password, users[rq[p].resp.user].password)
         /\ users[rq[p].resp.user].password # rq[p].body.password

\* C12: no response of register, login, profile or of the project endpoints that
\* embed the owner contains a user's hashed secret, and the secret persisted by
\* registration is the hash, never the submitted plaintext.
C12_SecretNeverExposed == NoSecretShown /\ SecretStoredHashed

C12_Witness ==
  \E p \in Procs :
    /\ rq[p].pc = "done"
    /\ rq[p].op \in {"register", "login", "profile", "listProjects"}
    /\ rq[p].resp.status \in {200, 201}
    /\ \E v \in rq[p].resp.shown :
         \E u \in DOMAIN users : v.email = users[u].email /\ users[u].password = Hash(Secret)


\* the error kind a client reads from an authentication failure
ErrorKind(resp) ==
  CASE resp.message = "Access denied. No token provided." -> "TokenMissing"
    [] resp.message = "Access denied. Invalid token format." -> "TokenInvalid"
    [] resp.message = "Access denied. Invalid token." -> "TokenInvalid"
    [] resp.message = "Access denied. Token expired." -> "TokenExpired"
    [] resp.message = "Token is valid but user not found." -> "IdentityNotFound"
    [] OTHER -> "Unspecified"

\* the error kind the header of a request calls for
ExpectedKind(hdr) ==
  IF ~hdr.present THEN "TokenMissing"
  ELSE IF hdr.token = EmptyToken \/ hdr.token.sig # "valid" THEN "TokenInvalid"
  ELSE IF hdr.token.expired THEN "TokenExpired"
  ELSE "IdentityNotFound"

\* C13: a request that fails authentication is answered 401 with the kind of its
\* failure: TokenMissing for an absent token, TokenInvalid for a wrong signature
\* or format, TokenExpired for a token past its expiry.
C13_AuthFailureKinds ==
  \A p \in Procs :
    rq[p].pc = "done" /\ rq[p].op = "authenticate"
      => /\ rq[p].resp.status = 401
         /\ ErrorKind(rq[p].resp) = ExpectedKind(rq[p].body)


\* C14: a request is admitted as a caller only while the user record of the
\* caller is in the store: once the record is deleted, a request carrying a token
\* issued to that user is not authenticated and performs no operation.
C14_DeletedUserRejected ==
  [][\A p \in Procs :
       rq[p].pc # "authed" /\ rq'[p].pc = "authed" => rq'[p].caller \in DOMAIN users]_vars

\* the request of connection p is answered in this step by the handler of op
Answers(p, op, pc) == rq[p].pc = pc /\ rq'[p].pc = "done" /\ rq'[p].op = op

\* an instant strictly before the clock of the server
PastDue(dueDate) == dueDate >= 0 /\ dueDate < now

\* C15: creating a task with a dueDate strictly before the current time is answered
\* with the validation error and creates no task; creating a valid task without a
\* dueDate succeeds; updating the dueDate to an instant strictly before the current
\* time is answered with the validation error and leaves the stored tasks as they were
C15_PastDueDateRejected ==
  [][\A p \in Procs :
       /\ Answers(p, "createTask", "projectFound") =>
            /\ PastDue(rq'[p].body.dueDate) =>
                 rq'[p].resp.status = 400 /\ tasks' = tasks
            /\ rq'[p].body.dueDate = NoDate =>
                 rq'[p].resp.status = 201 /\ DOMAIN tasks' # DOMAIN tasks
       /\ Answers(p, "updateTask", "taskOwned") =>
            ( PastDue(rq'[p].body.dueDate) =>
                rq'[p].resp.status = 400 /\ tasks' = tasks )]_vars

\* the tasks in the projects owned by u
OwnTasks(u) == {t \in DOMAIN tasks : /\ tasks[t].project \in DOMAIN projects
                                     /\ projects[tasks[t].project].user = u}

\* C16: the statistics request of an owner is answered with completionRate =
\* round(done / total * 100) when the owner has a task and with 0 when the owner has
\* none, never with an error; the value is an integer between 0 and 100
C16_CompletionRate ==
  [][\A p \in Procs :
       Answers(p, "stats", "authed") =>
         LET total == Cardinality(OwnTasks(rq[p].caller))
             done == Cardinality({t \in OwnTasks(rq[p].caller) : tasks[t].status = "Done"})
         IN /\ rq'[p].resp.status = 200
            /\ rq'[p].resp.stats.completionRate \in 0..100
            /\ rq'[p].resp.stats.completionRate =
                 (IF total = 0 THEN 0 ELSE (200 * done + total) \div (2 * total))]_vars

\* the request of connection p arrives at the handler of op in this step: the
\* ownership middleware reads the store
Arrives(p, op) == rq[p].pc = "authed" /\ rq'[p].op = op /\ rq'[p].pc \in {"taskOwned", "done"}

\* the project was created and deleted
Deleted(id) == id \in DOMAIN projectLog /\ id \notin DOMAIN projects

\* a task created without a status is stored as To Do
CreatedToDo ==
  \A p \in Procs :
    ( /\ Answers(p, "createTask", "projectFound")
      /\ rq'[p].resp.status = 201
      /\ rq'[p].body.status = NoStatus )
      => \A t \in DOMAIN tasks' \ DOMAIN tasks : tasks'[t].status = "To Do"

\* the stored status is the one of the latest successful update: a successful PATCH
\* stores its status, and nothing but a successful update changes a stored status
StatusKept ==
  /\ \A p \in Procs :
       Answers(p, "patchStatus", "taskOwned") /\ rq'[p].resp.status = 200
         => /\ rq'[p].id \in DOMAIN tasks'
            /\ tasks'[rq'[p].id].status = rq'[p].body.status
  /\ \A t \in DOMAIN tasks \cap DOMAIN tasks' :
       tasks'[t].status # tasks[t].status
         => \E p \in Procs : /\ rq'[p].pc = "done"
                             /\ rq'[p].op \in {"patchStatus", "updateTask"}
                             /\ rq'[p].id = t
                             /\ rq'[p].resp.status = 200

\* a GET of a task shows the status stored when the request arrived
StatusShown ==
  \A p \in Procs :
    /\ Arrives(p, "getTask") /\ rq'[p].pc = "taskOwned"
         => rq'[p].res.status = tasks[rq'[p].id].status
    /\ Answers(p, "getTask", "taskOwned")
         => \A v \in rq'[p].resp.tasks : v.status = rq[p].res.status

\* a GET of a task arriving after the deletion of its project is answered Not Found
GoneAfterDeletion ==
  \A p \in Procs :
    ( /\ Arrives(p, "getTask")
      /\ rq'[p].id \in DOMAIN tasks => Deleted(tasks[rq'[p].id].project) )
      => rq'[p].pc = "done" /\ rq'[p].resp.status = 404

\* C17: a task created without a status has status To Do; after a successful PATCH of
\* its status to In Progress every later GET by the owner shows In Progress until
\* another update; after the successful deletion of the parent project every later
\* GET of the task is answered Not Found
C17_StatusLifecycle ==
  [][CreatedToDo /\ StatusKept /\ StatusShown /\ GoneAfterDeletion]_vars

\* C18: the owner of a project is the authenticated caller of the request that created
\* it and never changes: no create, update or delete request, whatever its body,
\* changes the owner of an existing project or creates a project of somebody else
C18_OwnerNeverChanges ==
  [][/\ \A id \in DOMAIN projects \cap DOMAIN projects' :
          projects'[id].user = projects[id].user
     /\ \A id \in DOMAIN projects' \ DOMAIN projects :
          \E p \in Procs : /\ rq[p].pc = "authed"
                           /\ rq'[p].pc = "done"
                           /\ rq'[p].op = "createProject"
                           /\ projects'[id].user = rq[p].caller]_vars

TaskFields == {"title", "description", "status", "priority", "dueDate"}

\* the patch supplies the field
Supplied(body, f) ==
  body[f] # (CASE f \in {"title", "description"} -> Undef
               [] f \in {"status", "priority"} -> NoStatus
               [] f = "dueDate" -> NoDate)

\* C19: a task update changes only fields among title, description, status, priority
\* and dueDate that the patch supplies: every field not supplied keeps its prior
\* value, and no update changes the project reference of a task
C19_UpdateFrame ==
  [][\A t \in DOMAIN tasks \cap DOMAIN tasks' :
       /\ tasks'[t].project = tasks[t].project
       /\ tasks'[t] # tasks[t] =>
            \E p \in Procs :
              /\ rq'[p].pc = "done"
              /\ rq'[p].op \in {"updateTask", "draftUpdateTask"}
              /\ rq'[p].id = t
              /\ rq'[p].resp.status = 200
              /\ \A f \in TaskFields :
                   Supplied(rq'[p].body, f) \/ tasks'[t][f] = tasks[t][f]]_vars

\* an update that supplied the title only was stored, on a task with a due date
C19_Witness ==
  \E p \in Procs :
    /\ rq[p].pc = "done"
    /\ rq[p].op = "updateTask"
    /\ rq[p].resp.status = 200
    /\ Supplied(rq[p].body, "title")
    /\ ~Supplied(rq[p].body, "dueDate")
    /\ rq[p].id \in DOMAIN tasks
    /\ tasks[rq[p].id].title = Trim(rq[p].body.title)
    /\ tasks[rq[p].id].dueDate = MaxTime

\* C20: PATCH /api/tasks/:taskId/status with a status among To Do, In Progress and
\* Done replaces the stored status and leaves title, description, priority, dueDate
\* and project as they were; without a status, or with another one, it is answered
\* with a validation error and the task stays unchanged
C20_StatusOnly ==
  [][\A p \in Procs :
       ( /\ Answers(p, "patchStatus", "taskOwned")
         /\ rq'[p].id \in DOMAIN tasks )
         => IF rq'[p].body.status \in {"To Do", "In Progress", "Done"}
              THEN /\ rq'[p].resp.status = 200
                   /\ tasks' = [tasks EXCEPT ![rq'[p].id].status = rq'[p].body.status]
            ELSE /\ rq'[p].resp.status = 400
                 /\ tasks' = tasks]_vars

\* GET /api/tasks finds the projects of the caller in this step
FindsProjects(p) == rq[p].pc = "authed" /\ rq'[p].pc = "projectsFound" /\ rq'[p].op = "listTasks"

\* the answer to GET /api/tasks with a project filter: kind is the status of the
\* refusal when the filter is not a project the caller owned at the lookup
ProjectFilterAnswer(kind) ==
  \A p \in Procs :
    /\ FindsProjects(p) =>
         rq'[p].res.ids = {q \in DOMAIN projects : projects[q].user = rq[p].caller}
    /\ ( Answers(p, "listTasks", "projectsFound") /\ rq'[p].id # NoId ) =>
         IF rq'[p].id \in rq[p].res.ids
           THEN /\ rq'[p].resp.status = 200
                /\ \A v \in rq'[p].resp.tasks : v.project = rq'[p].id
         ELSE /\ rq'[p].resp.status = kind
              /\ rq'[p].resp.tasks = {}

\* C21 as stated: GET /api/tasks with a project filter that is not the id of a project
\* of the caller is answered Access Denied (403) with no tasks; with a project of the
\* caller it returns only tasks of that project
C21_FilterAccessDenied == [][ProjectFilterAnswer(403)]_vars

\* C21: GET /api/tasks with a project filter that is not the id of a project of the
\* caller is answered 400 "Invalid project ID or project does not belong to you." with
\* no tasks; with a project of the caller it returns only tasks of that project
C21_FilterRefused == [][ProjectFilterAnswer(400)]_vars

\* the project of another user was given as filter and the request was refused
C21_Witness ==
  \E p \in Procs :
    /\ rq[p].pc = "done"
    /\ rq[p].op = "listTasks"
    /\ rq[p].id \in DOMAIN projects
    /\ projects[rq[p].id].user # rq[p].caller
    /\ TasksOf(tasks, rq[p].id) # {}
    /\ rq[p].resp.status = 400

\* C22: the list of GET /api/tasks never has more than 100 tasks, however many tasks
\* the caller has and whatever filters and order are asked for
C22_ListCapped ==
  \A p \in Procs :
    rq[p].pc = "done" /\ rq[p].op = "listTasks"
      => Cardinality(rq[p].resp.tasks) <= 100 /\ rq[p].resp.count <= 100

\* the caller has more than 100 tasks and the list holds 100 of them
C22_Witness ==
  \E p \in Procs :
    /\ rq[p].pc = "done"
    /\ rq[p].op = "listTasks"
    /\ rq[p].resp.status = 200
    /\ Cardinality(OwnTasks(rq[p].caller)) > 100
    /\ Cardinality(rq[p].resp.tasks) = 100

\* C23: the count of tasks a successful project deletion reports is the number of
\* tasks its cascade removed, also when tasks of the project are created or deleted
\* while the deletion runs
C23_ReportedCountIsRemoved ==
  \A p \in Procs :
    rq[p].pc = "done" /\ rq[p].op = "deleteProject" /\ rq[p].resp.status = 200
      => rq[p].resp.count = Cardinality(rq[p].removed)

\* the project q is in the store and belongs to u
OwnsProject(q, u) == q \in DOMAIN projects /\ projects[q].user = u

\* the task t is in the store and its project belongs to u
OwnsTask(t, u) == t \in DOMAIN tasks /\ OwnsProject(tasks[t].project, u)

\* connection p is answered in this step that its mutation op succeeded
Succeeds(p, ops) ==
  /\ rq[p].pc \in {"owned", "cascaded", "taskOwned"}
  /\ rq'[p].pc = "done"
  /\ rq'[p].op \in ops
  /\ rq'[p].resp.status = 200

\* C24: the ownership check and the mutation of a request act as one operation: a
\* mutation is applied and reported successful only if the resource is in the store
\* and owned by the caller at the moment of the write; no update succeeds against a
\* record that a concurrent request deleted after the check
C24_CheckAndWriteAtomic ==
  [][\A p \in Procs :
       /\ Succeeds(p, {"updateProject", "deleteProject"})
            => OwnsProject(rq'[p].id, rq[p].caller)
       /\ Succeeds(p, {"updateTask", "patchStatus", "deleteTask"})
            => OwnsTask(rq'[p].id, rq[p].caller)]_vars

----------------------------------------------------------------------------
(* The admin-gated user listing of the first draft's user router. *)

\* the role flag of the registered users: user 1 is an administrator
UserRoles == (1 :> "admin") @@ (2 :> "user")

\* the claims signToken puts into the token data: { username, email, _id }
TokenFields == {"username", "email", "_id"}

\* req.user.role, read from the token data authMiddleware attached
TokenRole(userId) == IF "role" \in TokenFields THEN UserRoles[userId] ELSE NoStatus

\* adminOnly: req.user && req.user.role === "admin"
AdminOnly(userId) == TokenRole(userId) = "admin"

\* GET /api/users/: authMiddleware, adminOnly, getAllUsers
DraftListUsers(p) ==
  /\ rq[p].pc = "authed"
  /\ IF AdminOnly(rq[p].caller)
       THEN Reply(p, "listUsers", NoId, NoBody, "Authorized", TRUE, Resp(200, ""))
       ELSE Reply(p, "listUsers", NoId, NoBody, "Authenticated", FALSE,
                  Resp(403, "Access denied. Admins only."))
  /\ UNCHANGED <<now, users, projects, tasks, projectLog, taskSeq>>

\* the first draft's user and project routers
NextAdmin ==
  \E p \in Procs :
    \/ DraftAuthenticate(p, HeadersOf(DOMAIN users))
    \/ DraftListUsers(p)
    \/ DraftListProjects(p)
    \/ DraftCreateProject(p, LabBodies)

SpecAdmin == Init /\ [][NextAdmin]_vars

\* C25: on the admin-gated user listing a request bearing the token of a user with
\* role admin is admitted, and a request bearing the token of any other user is
\* answered 403
C25_AdminAdmitted ==
  [][\A p \in Procs :
       Answers(p, "listUsers", "authed")
         => (rq'[p].resp.status = 403 <=> UserRoles[rq[p].caller] # "admin")]_vars

\* C26: the statistics request of an owner is answered with counts over exactly the
\* tasks in the projects of the caller: totalTasks is their number, the To Do, In
\* Progress and Done counts sum to it, and overdueTasks is the number of those tasks
\* that have a dueDate before now and a status other than Done
C26_StatsCountOwnTasks ==
  [][\A p \in Procs :
       Answers(p, "stats", "authed") =>
         LET own == OwnTasks(rq[p].caller)
             st == rq'[p].resp.stats
         IN /\ rq'[p].resp.status = 200
            /\ st.totalTasks = Cardinality(own)
            /\ st.todoTasks + st.inProgressTasks + st.doneTasks = st.totalTasks
            /\ st.overdueTasks = Cardinality({t \in own : /\ PastDue(tasks[t].dueDate)
                                                         /\ tasks[t].status # "Done"})]_vars

\* C29: an authenticated GET /api/tasks/stats is handled by the statistics route and
\* answered 200 with the statistics of the caller; it is never answered as a lookup of
\* the task "stats"
C29_StatsRouteReached ==
  [][\A p \in Procs :
       Answers(p, "stats", "authed") =>
         /\ rq'[p].id # BadId
         /\ rq'[p].resp = RespStats(200, "Task statistics retrieved successfully.",
                                    TaskStats(projects, tasks, rq[p].caller, now))]_vars

----------------------------------------------------------------------------
(* Requests that are answered with an error. *)

ErrorProjectBodies == OneProjectBody \cup {ProjectBody(<<"a", "b">>, <<"d">>, NoStatus)}

ErrorProjectPatches ==
  {ProjectBody(<<"a", "b">>, Undef, NoStatus), ProjectBody(Undef, Undef, "Completed")}

ErrorTaskBodies == GoodTaskBodies \cup {TaskBody(<<"t">>, <<"d">>, NoStatus, NoStatus)}

ErrorTaskPatches == StatusPatches \cup {TaskBody(<<"t">>, Undef, NoStatus, NoStatus)}

\* the backend draft: projects and tasks are created and updated with good and bad
\* input, by either user on either connection
NextErrors ==
  \E p \in Procs :
    \/ Authenticate(p, {NoHeader} \cup TokensOf(DOMAIN users))
    \/ CreateProject(p, ErrorProjectBodies)
    \/ VerifyOwnership(p, {"updateProject"}, ProjectIdIn \cup {BadId})
    \/ UpdateProject(p, ErrorProjectPatches)
    \/ CreateTaskCheck(p, ProjectIdIn \cup {BadId}, ErrorTaskBodies)
    \/ CreateTask(p)
    \/ VerifyTaskOwnership(p, {"updateTask"}, TaskIdIn \cup {BadId})
    \/ UpdateTask(p, ErrorTaskPatches)

SpecErrors == Init /\ [][NextErrors]_vars

\* the request of connection p is answered in this step
AnsweredNow(p) == rq'[p].pc = "done" /\ rq'[p] # rq[p]

\* C27: a request that is answered with an error leaves the stored users, projects and
\* tasks as they were: the step that answers it changes none of them, and the stores
\* change only in the step that answers a request with success
C27_ErrorsLeaveStoresUnchanged ==
  [][/\ \A p \in Procs :
          AnsweredNow(p) /\ rq'[p].resp.status >= 400
            => <<users, projects, tasks>>' = <<users, projects, tasks>>
     /\ <<users, projects, tasks>>' # <<users, projects, tasks>>
          => \E p \in Procs : AnsweredNow(p) /\ rq'[p].resp.status \in {200, 201}]_vars

\* an update of a stored task or of a stored project was refused for its content
C27_Witness ==
  \E p \in Procs :
    /\ rq[p].pc = "done"
    /\ rq[p].resp.status = 400
    /\ \/ rq[p].op = "updateTask" /\ rq[p].id \in DOMAIN tasks
       \/ rq[p].op = "updateProject" /\ rq[p].id \in DOMAIN projects

----------------------------------------------------------------------------
(* The nested task routes of the first draft's task router. *)

\* the ObjectId of task t where the id of a project is expected: ObjectIds are unique
\* across the collections, so no project has it
TaskRef(t) == BadId - 1 - t

\* Task.findOne({ _id: ref }): the stored task whose _id is ref, NoId when there is none
FindTaskById(tsks, ref) ==
  IF ref < BadId /\ (BadId - 1 - ref) \in DOMAIN tsks THEN BadId - 1 - ref ELSE NoId

\* GET /api/projects/:projectId/tasks: Task.find().populate({ path: "project",
\* match: { user } }) and the filter on task.project !== null; req.params and
\* req.query are not read
DraftListProjectTasks(p, ids, filters) ==
  /\ rq[p].pc = "authed"
  /\ \E id \in ids, query \in filters :
       LET userTasks == {t \in DOMAIN tasks : /\ tasks[t].project \in DOMAIN projects
                                             /\ projects[tasks[t].project].user
                                                  = rq[p].caller}
       IN Reply(p, "draftListProjectTasks", id, query, "Authorized", TRUE,
                RespWith(200, "", {}, {TaskView(tasks, t) : t \in userTasks}, 0))
  /\ UNCHANGED <<now, users, projects, tasks, projectLog, taskSeq>>

\* POST /api/projects/:projectId/tasks: the project is read from req.body, looked up
\* among the tasks, and the task is created with the caller as its user
DraftCreateTask(p, ids, refs, bodies) ==
  /\ rq[p].pc = "authed"
  /\ NewTaskId <= MaxTasks
  /\ \E id \in ids, ref \in refs, b \in bodies :
       LET body == b @@ [project |-> ref]
           projectOwned == FindTaskById(tasks, ref)
           doc == [title |-> Trim(b.title), description |-> Trim(b.description),
                   status |-> IF b.status = NoStatus THEN "To Do" ELSE b.status,
                   priority |-> IF b.priority = NoStatus THEN "Medium" ELSE b.priority,
                   project |-> ref,
                   user |-> rq[p].caller,
                   dueDate |-> b.dueDate]
       IN IF ref = BadId
            THEN /\ Reply(p, "draftCreateTask", id, body, "Denied", FALSE,
                          Resp(500, "Cast to ObjectId failed"))
                 /\ UNCHANGED <<tasks, taskSeq>>
          ELSE IF projectOwned = NoId
            THEN /\ Reply(p, "draftCreateTask", id, body, "Denied", FALSE,
                          Resp(403, "User not authorized to add tasks to this project"))
                 /\ UNCHANGED <<tasks, taskSeq>>
          ELSE IF ~ValidTask(doc) \/ ~ValidDueDate(doc.dueDate, now)
            THEN /\ Reply(p, "draftCreateTask", id, body, "Authorized", FALSE,
                          Resp(500, "Task validation failed"))
                 /\ UNCHANGED <<tasks, taskSeq>>
          ELSE /\ tasks' = Insert(tasks, NewTaskId, doc)
               /\ taskSeq' = NewTaskId
               /\ Reply(p, "draftCreateTask", id, body, "Authorized", TRUE,
                        RespWith(201, "", {}, {[id |-> NewTaskId, project |-> ref]}, 0))
  /\ UNCHANGED <<now, users, projects, projectLog>>

ProjectRefs == ProjectIdIn \cup {TaskRef(t) : t \in TaskIdIn} \cup {BadId}

\* the nested task routes of the backend draft and of the first draft over one store
NextNested ==
  \E p \in Procs :
    \/ Authenticate(p, TokensOf(DOMAIN users))
    \/ DraftAuthenticate(p, {NoHeader} \cup TokensOf(DOMAIN users))
    \/ CreateProject(p, GoodProjectBodies)
    \/ CreateTaskCheck(p, ProjectIdIn, GoodTaskBodies)
    \/ CreateTask(p)
    \/ ListProjectTasksCheck(p, ProjectIdIn)
    \/ ListProjectTasks(p, {NoFilter})
    \/ DraftListProjectTasks(p, ProjectIdIn, {NoFilter})
    \/ DraftCreateTask(p, ProjectIdIn, ProjectRefs, GoodTaskBodies)

SpecNested == Init /\ [][NextNested]_vars

\* the tasks of project q that the filters of query let through
Listed(q, query) ==
  {t \in TasksOf(tasks, q) :
     /\ query.status = NoStatus \/ tasks[t].status = query.status
     /\ query.priority = NoStatus \/ tasks[t].priority = query.priority}

\* the answer to GET /projects/:projectId/tasks is the list of the tasks of the project
\* when the caller owns it and a failure without tasks otherwise
ListsProject(p) ==
  IF OwnsProject(rq'[p].id, rq[p].caller)
    THEN /\ rq'[p].resp.status = 200
         /\ rq'[p].resp.tasks = {TaskView(tasks, t) : t \in Listed(rq'[p].id, rq'[p].body)}
    ELSE /\ rq'[p].resp.status >= 400
         /\ rq'[p].resp.tasks = {}

\* C28: GET /projects/:projectId/tasks called by the owner of the project returns
\* exactly the tasks of that project that pass the filters, and no task of another
\* project; called for a project the caller does not own or that does not exist it
\* fails and returns no task
C28_ListsTasksOfProject ==
  [][\A p \in Procs :
       /\ Answers(p, "listProjectTasks", "authed") => ListsProject(p)
       /\ Answers(p, "listProjectTasks", "projectFound") => ListsProject(p)
       /\ Answers(p, "draftListProjectTasks", "authed") => ListsProject(p)]_vars

\* C30: POST /projects/:projectId/tasks of the router that stores the owner on the
\* task creates the task if and only if the project named in the request is a project
\* of the caller, and the user stored on the task is the owner of that project
C30_CreatesInOwnProjectOnly ==
  [][\A p \in Procs :
       Answers(p, "draftCreateTask", "authed") =>
         LET ref == rq'[p].body.project
             created == DOMAIN tasks' \ DOMAIN tasks
         IN /\ created # {} <=> OwnsProject(ref, rq[p].caller)
            /\ \A t \in created : /\ tasks'[t].project = ref
                                  /\ OwnsProject(ref, tasks'[t].user)]_vars
====
